---- MODULE Spec2Model ----
(***************************************************************************)
(* Model of the BetaPlays hooks: the alpha lifecycle manager (useAlphas),  *)
(* the beta detection run (useBetas), the parent resolver's write-back     *)
(* (useParentAlpha) and the narrative engine (useNarrativeSzn).            *)
(*                                                                         *)
(* The clock `now` counts minutes (Date.now() / 60000); every duration of  *)
(* the source is expressed in that unit.                                   *)
(***************************************************************************)
EXTENDS Integers, Sequences, FiniteSets, TLC

VARIABLES
    now,                \* Date.now(), in minutes
    localStorage,       \* the item stored under STORAGE_KEY
    liveAlphas, coolingAlphas, positioningAlphas,
    loading, isRefreshing, error,
    pollsInFlight,      \* fetchLive calls awaiting their feeds
    fetchLiveDeps,      \* the liveAlphas.length fetchLive was created with when the
                        \* effects that depend on it ran last
    lastOp,             \* the action taken last
    ingested,           \* per address: the highest marketCap saveToHistory was given
                        \* since the address's record was created (0: no record)
    ticks, polls, mounts, corruptions,
    selectedAlpha,      \* the alpha selected in the panel
    betas, betasLoading, betasError,
    runs,               \* the fetchBetas calls, per slot
    scoreCache, visionCache,
    betasBy,            \* the slot of the run that set betas last (0: none)
    parent, parentLoading,
    lookups,            \* per alpha id: the findParent calls in flight
    selections, refreshes,
    sznLive,            \* the live tokens the narrative engine was rendered with last
    keywordCards,       \* the cards Pass 1 built from the live tokens
    unmatched,          \* the live tokens Pass 1 left without a category
    aiEnrichments, aiCards,
    pass2, pass3,       \* the AI text pass and the vision pass of the last effect run
    categorizationCache,
    sznEffects,
    libCall             \* the library function called last, its arguments and what it returned

\* useAlphas' state apart from the store
feedState == <<liveAlphas, coolingAlphas, positioningAlphas, loading, isRefreshing, error,
               pollsInFlight, fetchLiveDeps, ingested, polls, mounts>>

feedVars == <<feedState, corruptions>>

betaVars == <<selectedAlpha, betas, betasLoading, betasError, runs, scoreCache, visionCache,
              betasBy, selections, refreshes>>

parentVars == <<parent, parentLoading, lookups>>

sznVars == <<sznLive, keywordCards, unmatched, aiEnrichments, aiCards, pass2, pass3, categorizationCache, sznEffects>>

vars == <<now, localStorage, lastOp, ticks, feedVars, betaVars, parentVars, sznVars, libCall>>

\* ------------------------------------------------------------------ bounds
MaxTicks       == 2
MaxPolls       == 2
MaxMounts      == 1
MaxCorruptions == 1
MaxSelections  == 2
MaxRefreshes   == 1
MaxRuns        == 2
MaxFeed        == 1
MaxInFlight    == 1
MaxSznEffects  == 2

\* ------------------------------------------------------------------ inputs
Addr       == {"a1", "a2"}
ChangeVals == {-50, 1164}
VolumeVals == {4000, 20000}
McapVals   == {12000, 800000}
LiqVals    == {4000}
TickSteps  == {60, 3 * 60, 719 * 60}
StartTime  == 1000

\* ------------------------------------------------------------------ constants
LIVE_MIN_CHANGE    == 0
LIVE_MIN_VOLUME    == 10000
COOLING_MIN_VOLUME == 5000
COOLING_MIN_MCAP   == 10000
HISTORY_MAX_AGE_MS == 30 * 24 * 60
AI_SCORE_THRESHOLD  == 65      \* 0.65, in hundredths
CACHE_TTL_MS        == 5       \* the score cache's, in minutes
VISION_CACHE_TTL_MS == 10      \* the vision cache's CACHE_TTL_MS
MIN_TEXT_CONFIDENCE == 50      \* 0.5, in hundredths
CATEGORIZE_CACHE_TTL_MS == 5   \* the categorization cache's CACHE_TTL_MS
MIN_TOKENS_FOR_SZN  == 2
MIN_LIQUIDITY       == 5000

\* A property that a JavaScript object does not have (undefined).
Undefined == -1

JUNK_SYMBOLS == {"SOL", "USDC", "USDT", "WSOL", "BTC", "ETH", "WBTC"}

\* ------------------------------------------------------------------ helpers
Min(a, b) == IF a < b THEN a ELSE b
Max(a, b) == IF a > b THEN a ELSE b

\* x || 0
OrZero(x) == IF x = Undefined THEN 0 ELSE x

Range(s) == {s[i] : i \in 1..Len(s)}

Take(s, n) == SubSeq(s, 1, Min(n, Len(s)))

RECURSIVE InsertBy(_, _, _)
\* insert x after every element that does not sort after it (stable)
InsertBy(Cmp(_, _), x, s) ==
    IF s = <<>> THEN <<x>>
    ELSE IF Cmp(x, Head(s)) < 0 THEN <<x>> \o s
    ELSE <<Head(s)>> \o InsertBy(Cmp, x, Tail(s))

RECURSIVE SortBy(_, _)
\* Array.prototype.sort with comparator Cmp: a stable sort
SortBy(Cmp(_, _), s) ==
    IF s = <<>> THEN <<>>
    ELSE InsertBy(Cmp, s[Len(s)], SortBy(Cmp, SubSeq(s, 1, Len(s) - 1)))

Addresses(s) == {s[i].address : i \in 1..Len(s)}

\* ------------------------------------------------------------------ tokens
SymbolOf(addr) == IF addr = "a1" THEN "WIF" ELSE "BONK"

\* formatAlpha: a record of the feed; it carries no history field
formatAlpha(addr, chg, vol, mcap, liq, src) ==
    [address |-> addr, symbol |-> SymbolOf(addr), priceChange24h |-> chg,
     volume24h |-> vol, marketCap |-> mcap, liquidity |-> liq, source |-> src,
     isHistorical |-> FALSE, isCooling |-> FALSE, isDumped |-> FALSE,
     coolingLabel |-> "null", coolingReason |-> "undefined",
     firstSeen |-> Undefined, lastSeen |-> Undefined,
     peakMarketCap |-> Undefined, mcapAtFirstSeen |-> Undefined]

\* what the feeds can report: every combination for a1, and for a2 one runner
\* with a 24h change of the size bonding curves report, or a2 while it is
\* still on its bonding curve (fetchPumpFunBonded reports no 24h change there)
FeedTokens ==
    {formatAlpha("a1", c, v, m, l, "boost") :
        c \in ChangeVals, v \in VolumeVals, m \in McapVals, l \in LiqVals}
    \cup {formatAlpha("a2", 120000, 20000, 800000, 4000, "boost"),
          formatAlpha("a2", 0, 6000, 25000, 4000, "pumpfun_pre")}

Feeds == UNION {[1..n -> FeedTokens] : n \in 0..MaxFeed}

\* ------------------------------------------------------------------ the history store
\* localStorage holds nothing under STORAGE_KEY ("absent"), the JSON text of
\* an object ("json", kept as the object's entries in key insertion order), or
\* text that JSON.parse rejects ("garbage").
NoItem      == [kind |-> "absent", obj |-> <<>>]
Garbage     == [kind |-> "garbage", obj |-> <<>>]
\* the properties of a token that can hold undefined: JSON.stringify leaves such
\* a property out of the text, and reading it from the parsed object gives
\* undefined again
NumberProps == {"firstSeen", "lastSeen", "peakMarketCap", "mcapAtFirstSeen"}
StringProps == {"source", "coolingLabel", "coolingReason"}
IsUndefinedProp(r, f) ==
    IF f \in NumberProps THEN r[f] = Undefined
    ELSE IF f \in StringProps THEN r[f] = "undefined"
    ELSE FALSE
\* StringifyRecord with the peak left out of the text
StringifyRecord_NoPeak(r) ==
    [f \in {g \in DOMAIN r : ~IsUndefinedProp(r, g)} \ {"peakMarketCap"} |-> r[f]]
\* JSON.stringify of one record: the properties it writes, with their values
StringifyRecord(r) == [f \in {g \in DOMAIN r : ~IsUndefinedProp(r, g)} |-> r[f]]
\* the properties of a token
AlphaProps == DOMAIN formatAlpha("a1", 0, 0, 0, 0, "boost")
\* JSON.parse of one record, read through the properties of a token
ParseRecord(j) ==
    [f \in AlphaProps |->
        IF f \in DOMAIN j THEN j[f]
        ELSE IF f \in StringProps THEN "undefined" ELSE Undefined]
\* localStorage.setItem(STORAGE_KEY, JSON.stringify(o))
JSONItem(o) == [kind |-> "json", obj |-> [i \in 1..Len(o) |-> StringifyRecord(o[i])]]

\* JSON.parse(localStorage.getItem(STORAGE_KEY) || '{}') throws
ParseThrows(ls) == ls.kind = "garbage"
\* ... and what it returns when it does not
ParseStored(ls) ==
    IF ls.kind = "json" THEN [i \in 1..Len(ls.obj) |-> ParseRecord(ls.obj[i])] ELSE <<>>

HasKey(obj, addr) == \E i \in 1..Len(obj) : obj[i].address = addr
Lookup(obj, addr) == obj[CHOOSE i \in 1..Len(obj) : obj[i].address = addr]

\* obj[rec.address] = rec : an existing key keeps its place, a new one is last
Assign(obj, rec) ==
    IF HasKey(obj, rec.address)
    THEN [i \in 1..Len(obj) |-> IF obj[i].address = rec.address THEN rec ELSE obj[i]]
    ELSE Append(obj, rec)

safePriceChange(chg) == Min(Max(chg, -100), 5000)

\* HistoryRecord with the running maximum dropped: the peak is the last marketCap
HistoryRecord_LastMcap(existing, alpha, t) ==
    LET hasPrev   == HasKey(existing, alpha.address)
        prev      == Lookup(existing, alpha.address)
        prevFirst == IF hasPrev THEN OrZero(prev.firstSeen) ELSE 0
        prevMcap0 == IF hasPrev THEN OrZero(prev.mcapAtFirstSeen) ELSE 0
    IN  [alpha EXCEPT
            !.priceChange24h  = Min(Max(alpha.priceChange24h, -100), 5000),
            !.firstSeen       = IF prevFirst # 0 THEN prevFirst ELSE t,
            !.lastSeen        = t,
            !.peakMarketCap   = alpha.marketCap,
            !.mcapAtFirstSeen = IF prevMcap0 # 0 THEN prevMcap0 ELSE alpha.marketCap]

\* the record saveToHistory writes for one alpha of the feed
HistoryRecord(existing, alpha, t) ==
    LET hasPrev  == HasKey(existing, alpha.address)
        prev     == Lookup(existing, alpha.address)
        prevPeak == IF hasPrev THEN OrZero(prev.peakMarketCap) ELSE 0
        prevFirst == IF hasPrev THEN OrZero(prev.firstSeen) ELSE 0
        prevMcap0 == IF hasPrev THEN OrZero(prev.mcapAtFirstSeen) ELSE 0
    IN  [alpha EXCEPT
            !.priceChange24h  = safePriceChange(alpha.priceChange24h),
            !.firstSeen       = IF prevFirst # 0 THEN prevFirst ELSE t,
            !.lastSeen        = t,
            !.peakMarketCap   = Max(prevPeak, alpha.marketCap),
            !.mcapAtFirstSeen = IF prevMcap0 # 0 THEN prevMcap0 ELSE alpha.marketCap]

RECURSIVE IngestAll(_, _, _)
IngestAll(existing, alphas, t) ==
    IF alphas = <<>> THEN existing
    ELSE IF Head(alphas).address = "" THEN IngestAll(existing, Tail(alphas), t)
    ELSE IngestAll(Assign(existing, HistoryRecord(existing, Head(alphas), t)),
                   Tail(alphas), t)

Expired(rec, t) == t - rec.lastSeen > HISTORY_MAX_AGE_MS

Prune(existing, t) == SelectSeq(existing, LAMBDA r : ~Expired(r, t))

\* saveToHistory: what localStorage holds afterwards
saveToHistory(ls, alphas, t) ==
    IF ParseThrows(ls) THEN ls
    ELSE JSONItem(Prune(IngestAll(ParseStored(ls), alphas, t), t))

\* formatParent: the pair the resolver found, as it is handed to saveParentToHistory
formatParent(addr, chg, vol, mcap, liq) ==
    [formatAlpha(addr, chg, vol, mcap, liq, "undefined") EXCEPT !.coolingLabel = "undefined"]

\* the parents the resolver can find
ParentTokens ==
    {formatParent("a1", 1164, 20000, m, 6000) : m \in McapVals}

\* saveParentToHistory: what localStorage holds afterwards
saveParentToHistory(ls, found, t) ==
    IF ParseThrows(ls) THEN ls
    ELSE LET existing  == ParseStored(ls)
             prevFirst == IF HasKey(existing, found.address)
                          THEN OrZero(Lookup(existing, found.address).firstSeen)
                          ELSE 0
         IN  JSONItem(Assign(existing,
                 [found EXCEPT !.firstSeen     = IF prevFirst # 0 THEN prevFirst ELSE t,
                                !.lastSeen      = t,
                                !.coolingReason = "Parent of"]))

\* ------------------------------------------------------------------ classification
\* loadHistoricalByPriceAction, for one stored record: "live", "cooling" or
\* "skip"
HistoricalDumped(a) ==
    LET peak == OrZero(a.peakMarketCap)
        mcap == a.marketCap
    IN  peak > 50000 /\ mcap > 0 /\ 4 * mcap < peak

\* the staleness guard left out
HistoricalIsStale_Never(a, t) == FALSE

HistoricalIsStale(a, t) == t - a.lastSeen > 2 * 60

\* HistoricalClass without the skip of the addresses in the current feed
HistoricalClass_WithFeed(a, currentAddresses, t) ==
    LET age          == t - a.lastSeen
        cappedChange == Min(Max(a.priceChange24h, -100), 5000)
        isStale      == HistoricalIsStale(a, t)
    IN  IF age > HISTORY_MAX_AGE_MS THEN "skip"
        ELSE IF a.volume24h < COOLING_MIN_VOLUME \/ a.marketCap < COOLING_MIN_MCAP
             THEN "skip"
        ELSE IF HistoricalDumped(a) THEN "dumped"
        ELSE IF cappedChange > LIVE_MIN_CHANGE /\ a.volume24h >= LIVE_MIN_VOLUME
                /\ ~isStale THEN "live"
        ELSE IF cappedChange < 0 \/ isStale THEN "cooling"
        ELSE "skip"

HistoricalClass(a, currentAddresses, t) ==
    LET age          == t - a.lastSeen
        cappedChange == Min(Max(a.priceChange24h, -100), 5000)
        isStale      == HistoricalIsStale(a, t)
    IN  IF a.address \in currentAddresses THEN "skip"
        ELSE IF age > HISTORY_MAX_AGE_MS THEN "skip"
        ELSE IF a.volume24h < COOLING_MIN_VOLUME \/ a.marketCap < COOLING_MIN_MCAP
             THEN "skip"
        ELSE IF HistoricalDumped(a) THEN "dumped"
        ELSE IF cappedChange > LIVE_MIN_CHANGE /\ a.volume24h >= LIVE_MIN_VOLUME
                /\ ~isStale THEN "live"
        ELSE IF cappedChange < 0 \/ isStale THEN "cooling"
        ELSE "skip"

\* the entry pushed for a stored record (the numbers inside a label are left out)
HistoricalEntry(a, class, t) ==
    LET cappedChange == Min(Max(a.priceChange24h, -100), 5000)
    IN  CASE class = "dumped" ->
                [a EXCEPT !.priceChange24h = cappedChange, !.isCooling = TRUE,
                          !.isDumped = TRUE, !.isHistorical = TRUE,
                          !.coolingLabel = "Dumped"]
          [] class = "live" ->
                [a EXCEPT !.priceChange24h = cappedChange, !.isHistorical = TRUE,
                          !.coolingLabel = "null"]
          [] OTHER ->
                [a EXCEPT !.priceChange24h = cappedChange, !.isCooling = TRUE,
                          !.isHistorical = TRUE,
                          !.coolingLabel = IF HistoricalIsStale(a, t) THEN "Last seen"
                                           ELSE "Watching for reversal"]

RECURSIVE HistoricalPick(_, _, _, _)
\* the entries of the given classes, in the store's order
HistoricalPick(existing, classes, currentAddresses, t) ==
    IF existing = <<>> THEN <<>>
    ELSE LET a     == Head(existing)
             class == HistoricalClass(a, currentAddresses, t)
             rest  == HistoricalPick(Tail(existing), classes, currentAddresses, t)
         IN  IF class \in classes THEN <<HistoricalEntry(a, class, t)>> \o rest ELSE rest

loadHistoricalByPriceAction(ls, currentAddresses, t) ==
    IF ParseThrows(ls) THEN [historicalLive |-> <<>>, historicalCooling |-> <<>>]
    ELSE [historicalLive    |-> HistoricalPick(ParseStored(ls), {"live"}, currentAddresses, t),
          historicalCooling |-> HistoricalPick(ParseStored(ls), {"dumped", "cooling"},
                                               currentAddresses, t)]

isJunk(alpha) == alpha.symbol \in JUNK_SYMBOLS \/ alpha.marketCap = 0

isDumped(alpha) ==
    LET peak    == OrZero(alpha.peakMarketCap)
        current == alpha.marketCap
    IN  IF peak < 50000 THEN FALSE
        ELSE IF current = 0 THEN FALSE
        ELSE 4 * current < peak

\* FreshClass with the volume floor of Live left out
FreshClass_NoVolumeFloor(alpha) ==
    LET change == Min(Max(alpha.priceChange24h, -100), 5000)
        volume == alpha.volume24h
        mcap   == alpha.marketCap
    IN  IF isJunk(alpha) THEN "skip"
        ELSE IF isDumped(alpha) THEN "dumped"
        ELSE IF alpha.source = "pumpfun_pre"
             THEN IF volume >= COOLING_MIN_VOLUME /\ mcap >= COOLING_MIN_MCAP
                  THEN "pre" ELSE "skip"
        ELSE IF change > LIVE_MIN_CHANGE THEN "live"
        ELSE IF change < 0 /\ volume >= COOLING_MIN_VOLUME /\ mcap >= COOLING_MIN_MCAP
             THEN "cooling"
        ELSE "skip"

\* classifyByPriceAction, for one alpha of the feed
FreshClass(alpha) ==
    LET change == Min(Max(alpha.priceChange24h, -100), 5000)
        volume == alpha.volume24h
        mcap   == alpha.marketCap
    IN  IF isJunk(alpha) THEN "skip"
        ELSE IF isDumped(alpha) THEN "dumped"
        ELSE IF alpha.source = "pumpfun_pre"
             THEN IF volume >= COOLING_MIN_VOLUME /\ mcap >= COOLING_MIN_MCAP
                  THEN "pre" ELSE "skip"
        ELSE IF change > LIVE_MIN_CHANGE /\ volume >= LIVE_MIN_VOLUME THEN "live"
        ELSE IF change < 0 /\ volume >= COOLING_MIN_VOLUME /\ mcap >= COOLING_MIN_MCAP
             THEN "cooling"
        ELSE "skip"

FreshEntry(alpha, class) ==
    CASE class = "dumped"  -> [alpha EXCEPT !.isCooling = TRUE, !.isDumped = TRUE,
                                            !.coolingLabel = "Dumped"]
      [] class = "pre"     -> [alpha EXCEPT !.coolingLabel = "to graduation"]
      [] class = "cooling" -> [alpha EXCEPT !.isCooling = TRUE,
                                            !.coolingLabel = "Watching for reversal"]
      [] OTHER             -> alpha

RECURSIVE FreshPick(_, _)
FreshPick(alphas, classes) ==
    IF alphas = <<>> THEN <<>>
    ELSE LET class == FreshClass(Head(alphas))
             rest  == FreshPick(Tail(alphas), classes)
         IN  IF class \in classes THEN <<FreshEntry(Head(alphas), class)>> \o rest ELSE rest

classifyByPriceAction(alphas) ==
    [live    |-> FreshPick(alphas, {"live", "pre"}),
     cooling |-> FreshPick(alphas, {"dumped", "cooling"})]

\* the first record of each address kept, whatever the volumes
deduplicateAlphas_FirstWins(alphas) ==
    LET idx == SelectSeq([i \in 1..Len(alphas) |-> i],
                         LAMBDA i : /\ alphas[i].address # ""
                                    /\ \A j \in 1..(i - 1) : alphas[j].address # alphas[i].address)
    IN  [k \in 1..Len(idx) |-> alphas[idx[k]]]

RECURSIVE deduplicateAlphas(_)
\* one record per address, in first-occurrence order: a later record replaces
\* the one kept for its address only when its volume is strictly higher
deduplicateAlphas(alphas) ==
    IF alphas = <<>> THEN <<>>
    ELSE LET seen  == deduplicateAlphas(SubSeq(alphas, 1, Len(alphas) - 1))
             alpha == alphas[Len(alphas)]
         IN  IF alpha.address = "" THEN seen
             ELSE IF ~HasKey(seen, alpha.address) THEN Append(seen, alpha)
             ELSE IF alpha.volume24h > Lookup(seen, alpha.address).volume24h
                  THEN Assign(seen, alpha)
             ELSE seen

\* log10(volume) in thousandths, for the volumes of the feed
Log10Milli(v) ==
    CASE v = 4000 -> 3602 [] v = 7000 -> 3845 [] v = 20000 -> 4301 [] OTHER -> 0

\* getMomentumScore times 70000; pairCreatedAt is null in the modelled feed,
\* so the age score is 0
getMomentumScore(alpha) ==
    LET change   == alpha.priceChange24h
        volScore == IF alpha.volume24h > 0 THEN Min(7000, Log10Milli(alpha.volume24h)) ELSE 0
    IN  70 * Min(500, Max(0, change)) + 3 * volScore

ByMomentum(a, b) == getMomentumScore(b) - getMomentumScore(a)
ByChange(a, b)   == a.priceChange24h - b.priceChange24h

\* ------------------------------------------------------------------ positioning
PositioningAge(a, t) == t - (IF OrZero(a.firstSeen) # 0 THEN a.firstSeen ELSE t)

\* PositioningFilter without the test of the drawdown
PositioningFilter_NoDrawdown(a, t) ==
    LET peak    == OrZero(a.peakMarketCap)
        current == a.marketCap
    IN  /\ ~(peak < 50000)
        /\ current # 0
        /\ ~(a.volume24h < 5000)
        /\ ~(a.liquidity < 3000)
        /\ ~(PositioningAge(a, t) < 12 * 60)

PositioningFilter(a, t) ==
    LET peak    == OrZero(a.peakMarketCap)
        current == a.marketCap
    IN  /\ ~(peak < 50000)
        /\ current # 0
        /\ ~(a.volume24h < 5000)
        /\ ~(a.liquidity < 3000)
        /\ ~(PositioningAge(a, t) < 12 * 60)
        /\ 5 * (peak - current) >= 2 * peak

\* the opportunity score in thousandths of a point, each term rounded down
OpportunityMilli(a, t) ==
    LET peak     == OrZero(a.peakMarketCap)
        ddMilli  == IF peak > 0 THEN (1000 * (peak - a.marketCap)) \div peak ELSE 0
        volMilli == Min((a.volume24h * 1000) \div 500000, 1000)
        frMilli  == Max(0, 1000 - (1000 * PositioningAge(a, t)) \div (14 * 24 * 60))
    IN  50 * Min(ddMilli, 990) + 30 * volMilli + 20 * frMilli

PositioningEntry(a, t) ==
    [token            |-> [a EXCEPT !.peakMarketCap = OrZero(a.peakMarketCap)],
     isPositioning    |-> TRUE,
     opportunityScore |-> (OpportunityMilli(a, t) + 500) \div 1000]

ByOpportunity(a, b) == b.opportunityScore - a.opportunityScore

loadPositioningPlays(ls, t) ==
    IF ParseThrows(ls) THEN <<>>
    ELSE LET kept == SelectSeq(ParseStored(ls), LAMBDA a : PositioningFilter(a, t))
         IN  Take(SortBy(ByOpportunity, [i \in 1..Len(kept) |-> PositioningEntry(kept[i], t)]), 30)

\* ------------------------------------------------------------------ beta detection: the market
\* the alphas the user can select in the panel (the fields fetchBetas and
\* findParent read)
NoAlpha == [id |-> "null", address |-> "", symbol |-> "", marketCap |-> 0, logoUrl |-> FALSE]
AlphaA  == [id |-> "A", address |-> "a1", symbol |-> "WIF", marketCap |-> 800000, logoUrl |-> TRUE]
AlphaB  == [id |-> "B", address |-> "a2", symbol |-> "BONK", marketCap |-> 12000, logoUrl |-> FALSE]
Selections == {AlphaA, AlphaB}

\* the pairs the searches can return
Pair(addr, sym, chg, vol, mcap, created) ==
    [address |-> addr, symbol |-> sym, priceChange24h |-> chg, volume24h |-> vol,
     marketCap |-> mcap, logoUrl |-> TRUE, pairCreatedAt |-> created]
PairX1 == Pair("x1", "WIFHAT", 40, 9000, 60000, 500)
PairX2 == Pair("x2", "DOGWIF", 10, 30000, 90000, 700)
PairX3 == Pair("x3", "BONKINU", 25, 8000, 20000, 600)

DetectorOrder == <<"keyword", "description", "lore", "morphology", "pumpfun", "lp_pair">>
Detectors == Range(DetectorOrder)

\* what the searches of detector d return for an alpha when the network answers
Found(a, d) ==
    IF a.id = "A"
    THEN CASE d = "keyword"     -> <<PairX1>>
           [] d = "description" -> <<PairX1>>
           [] d = "lore"        -> <<PairX1, PairX2>>
           [] d = "morphology"  -> <<PairX2>>
           [] d = "pumpfun"     -> <<PairX2>>
           [] OTHER             -> <<PairX2>>
    ELSE IF d = "keyword" THEN <<PairX3>> ELSE <<>>

\* how a detector's call went: the network answered ("ok"), it failed and
\* the detector's own catch swallowed it ("error"), or the call threw outside
\* a try block ("throws")
NetOutcomes == {"ok", "error", "throws"}
Nets == [Detectors -> NetOutcomes]

\* one detector, as Promise.allSettled reports it
Detector(d, a, net) ==
    CASE net = "ok"    -> [status |-> "fulfilled",
                           value  |-> [i \in 1..Len(Found(a, d)) |->
                                          [pair |-> Found(a, d)[i], sources |-> {d}]]]
      [] net = "error" -> [status |-> "fulfilled", value |-> <<>>]
      [] OTHER         -> [status |-> "rejected", value |-> <<>>]

\* Promise.all in the place of Promise.allSettled: one rejection rejects the whole
AllSettledThrows_PromiseAll(settled) ==
    \E d \in Detectors : settled[d].status = "rejected"

\* Promise.allSettled never rejects
AllSettledThrows(settled) == FALSE

RECURSIVE AllResultsFrom(_, _)
\* allResults: the values of the fulfilled detectors, in the order of the call
AllResultsFrom(settled, k) ==
    IF k > Len(DetectorOrder) THEN <<>>
    ELSE (IF settled[DetectorOrder[k]].status = "fulfilled"
          THEN settled[DetectorOrder[k]].value ELSE <<>>)
         \o AllResultsFrom(settled, k + 1)

\* ------------------------------------------------------------------ beta detection: merge
\* signalSources is a set here: the source only tests membership
formatBeta(pair, sources) ==
    [address |-> pair.address, symbol |-> pair.symbol,
     priceChange24h |-> pair.priceChange24h, volume24h |-> pair.volume24h,
     marketCap |-> pair.marketCap, logoUrl |-> pair.logoUrl,
     pairCreatedAt |-> pair.pairCreatedAt, signalSources |-> sources,
     tokenClass |-> "null", mcapRatio |-> Undefined,
     aiScore |-> Undefined, visualScore |-> Undefined]

\* Math.round(alphaMcap / betaMcap), or null
getMcapRatio(alphaMcap, betaMcap) ==
    IF alphaMcap = 0 \/ betaMcap = 0 THEN Undefined
    ELSE (2 * alphaMcap + betaMcap) \div (2 * betaMcap)

\* the lookup by key dropped: the tags go to the first entry of the map
IndexOfAddress_First(s, addr) == 1

\* seen.get(key): the entry whose key is the address
IndexOfAddress(s, addr) == CHOOSE i \in 1..Len(s) : s[i].address = addr

\* symbol.toUpperCase(), over the symbols of the beta list: one of them is
\* listed in lower case
upperSymbol(sym) == IF sym = "wifhat" THEN "WIFHAT" ELSE sym

RECURSIVE SeenAfter(_, _, _)
\* the `seen` map of mergeAndScore after rawResults, in insertion order
SeenAfter(rawResults, alphaSymbol, seen) ==
    IF rawResults = <<>> THEN seen
    ELSE LET r    == Head(rawResults)
             key  == r.pair.address
             rest == Tail(rawResults)
         IN  IF key = "" \/ upperSymbol(r.pair.symbol) = upperSymbol(alphaSymbol)
             THEN SeenAfter(rest, alphaSymbol, seen)
             ELSE IF key \in Addresses(seen)
             THEN LET i == IndexOfAddress(seen, key)
                  IN  SeenAfter(rest, alphaSymbol,
                         [seen EXCEPT ![i].signalSources = @ \cup r.sources])
             ELSE SeenAfter(rest, alphaSymbol, Append(seen, formatBeta(r.pair, r.sources)))

RECURSIVE SymbolsInOrder(_)
\* the keys of classifyTokens' groups, in insertion order
SymbolsInOrder(bs) ==
    IF bs = <<>> THEN <<>>
    ELSE <<upperSymbol(Head(bs).symbol)>> \o
         SymbolsInOrder(SelectSeq(Tail(bs),
                                  LAMBDA b : upperSymbol(b.symbol) # upperSymbol(Head(bs).symbol)))

\* (a.pairCreatedAt || Infinity) - (b.pairCreatedAt || Infinity)
ByCreated(a, b) ==
    IF OrZero(a.pairCreatedAt) = 0 THEN (IF OrZero(b.pairCreatedAt) = 0 THEN 0 ELSE 1)
    ELSE IF OrZero(b.pairCreatedAt) = 0 THEN -1
    ELSE a.pairCreatedAt - b.pairCreatedAt

\* ClassifyGroup without the sort by creation time: the first found is the OG
ClassifyGroup_AnyOrder(group) ==
    IF Len(group) = 1 THEN <<[group[1] EXCEPT !.tokenClass = "null"]>>
    ELSE LET og     == group[1]
             ogMcap == IF og.marketCap = 0 THEN 1 ELSE og.marketCap
             ogVol  == IF og.volume24h = 0 THEN 1 ELSE og.volume24h
         IN  [i \in 1..Len(group) |->
                IF i = 1 THEN [group[i] EXCEPT !.tokenClass = "OG"]
                ELSE IF 10 * group[i].marketCap >= 8 * ogMcap \/ group[i].volume24h > ogVol
                     THEN [group[i] EXCEPT !.tokenClass = "RIVAL"]
                     ELSE [group[i] EXCEPT !.tokenClass = "SPIN"]]

\* one group of classifyTokens: a single token has no class, otherwise the
\* oldest is the OG and the others are RIVAL or SPIN
ClassifyGroup(group) ==
    IF Len(group) = 1 THEN <<[group[1] EXCEPT !.tokenClass = "null"]>>
    ELSE LET sorted == SortBy(ByCreated, group)
             og     == sorted[1]
             ogMcap == IF og.marketCap = 0 THEN 1 ELSE og.marketCap
             ogVol  == IF og.volume24h = 0 THEN 1 ELSE og.volume24h
         IN  [i \in 1..Len(sorted) |->
                IF i = 1 THEN [sorted[i] EXCEPT !.tokenClass = "OG"]
                ELSE IF 10 * sorted[i].marketCap >= 8 * ogMcap \/ sorted[i].volume24h > ogVol
                     THEN [sorted[i] EXCEPT !.tokenClass = "RIVAL"]
                     ELSE [sorted[i] EXCEPT !.tokenClass = "SPIN"]]

RECURSIVE ClassifyGroups(_, _)
ClassifyGroups(syms, bs) ==
    IF syms = <<>> THEN <<>>
    ELSE ClassifyGroup(SelectSeq(bs, LAMBDA b : upperSymbol(b.symbol) = Head(syms)))
         \o ClassifyGroups(Tail(syms), bs)

classifyTokens(bs) == ClassifyGroups(SymbolsInOrder(bs), bs)

IsLP(b) == IF "lp_pair" \in b.signalSources THEN 1 ELSE 0

\* the comparator of the beta list: LP pairs first, then 24h change, descending
LPThenChange(a, b) ==
    IF IsLP(b) # IsLP(a) THEN IsLP(b) - IsLP(a)
    ELSE b.priceChange24h - a.priceChange24h

mergeAndScore(rawResults, alphaSymbol, alphaMcap) ==
    LET seen    == SeenAfter(rawResults, alphaSymbol, <<>>)
        deduped == SelectSeq(seen, LAMBDA b : b.symbol \notin {"SOL", "USDC", "USDT"})
        classed == classifyTokens(deduped)
        ratioed == [i \in 1..Len(classed) |->
                      [classed[i] EXCEPT !.mcapRatio = getMcapRatio(alphaMcap, classed[i].marketCap)]]
    IN  Take(SortBy(LPThenChange, ratioed), 30)

\* ------------------------------------------------------------------ beta detection: AI scoring and vision
\* { ...b, ...over }
Spread(b, over) ==
    [f \in (DOMAIN b) \cup (DOMAIN over) |-> IF f \in DOMAIN over THEN over[f] ELSE b[f]]

\* a module-level Map: a set of entries, at most one per key
NoEntry == [key |-> "none", results |-> <<>>, timestamp |-> 0]
CacheHas(cache, key) == \E e \in cache : e.key = key
CacheGet(cache, key) == IF CacheHas(cache, key) THEN CHOOSE e \in cache : e.key = key ELSE NoEntry
CacheSet(cache, key, results, t) ==
    {e \in cache : e.key # key} \cup {[key |-> key, results |-> results, timestamp |-> t]}

\* the key with the addresses in the order of the candidates
getCacheKey_Unsorted(alphaAddress, candidates) ==
    [alpha |-> alphaAddress, addrs |-> [i \in 1..Len(candidates) |-> candidates[i].address]]

\* the key joins the alpha's address and the sorted candidate addresses
getCacheKey(alphaAddress, candidates) ==
    [alpha |-> alphaAddress, addrs |-> Addresses(candidates)]

\* scores in hundredths
ScoreVals == {50, 90}

\* what the scoring backend answers for a batch of n candidates: an error, or
\* a score for each index
AIResponses(n) ==
    {[ok |-> FALSE, scores |-> <<>>]} \cup {[ok |-> TRUE, scores |-> f] : f \in [1..n -> ScoreVals]}

RECURSIVE ScoredFrom(_, _, _)
\* scoreBatch: the candidates at or above the threshold, tagged ai_match
ScoredFrom(candidates, scores, k) ==
    IF k > Len(candidates) THEN <<>>
    ELSE (IF scores[k] >= AI_SCORE_THRESHOLD
          THEN <<[candidates[k] EXCEPT !.aiScore = scores[k],
                                       !.signalSources = @ \cup {"ai_match"}]>>
          ELSE <<>>)
         \o ScoredFrom(candidates, scores, k + 1)

ByAiScore(a, b) == b.aiScore - a.aiScore

\* scoreWithAI past its cache: every model list fits one batch of BATCH_SIZE;
\* a batch that fails is dropped by Promise.allSettled
allScored(candidates, response) ==
    IF response.ok THEN SortBy(ByAiScore, ScoredFrom(candidates, response.scores, 1))
    ELSE <<>>

\* what scoreWithAI does before its first await: "empty" (nothing to score),
\* "cached" (a fresh cache entry is returned) or "network"
ScoreCall(a, candidates, cache, t) ==
    LET key    == getCacheKey(a.address, candidates)
        cached == CacheGet(cache, key)
    IN  IF a.id = "null" \/ candidates = <<>> THEN [kind |-> "empty", results |-> <<>>]
        ELSE IF CacheHas(cache, key) /\ t - cached.timestamp < CACHE_TTL_MS
             THEN [kind |-> "cached", results |-> cached.results]
        ELSE [kind |-> "network", results |-> <<>>]

\* fetchBetas' merge of the AI scores into its merged list
AIMerge(merged, aiScored) ==
    LET withAI == [i \in 1..Len(merged) |->
                     IF merged[i].address \in Addresses(aiScored)
                     THEN Spread(merged[i], aiScored[IndexOfAddress(aiScored, merged[i].address)])
                     ELSE merged[i]]
        aiOnly == SelectSeq(aiScored, LAMBDA b : b.address \notin Addresses(merged))
    IN  Take(SortBy(LPThenChange, withAI \o aiOnly), 30)

shouldRunVision(token, textConfidence) ==
    IF ~token.logoUrl THEN FALSE
    ELSE IF textConfidence >= MIN_TEXT_CONFIDENCE THEN FALSE
    ELSE TRUE

\* textConfidence is signalSources.length * 0.25, in hundredths here
weakTextCandidates(currentBetas) ==
    SelectSeq(currentBetas, LAMBDA b : shouldRunVision(b, Cardinality(b.signalSources) * 25))

\* what the vision backend answers: the alpha's image cannot be fetched, the
\* comparison fails, or a visual score for each index
VisionResponses(n) ==
    {[kind |-> "noimage", scores |-> <<>>], [kind |-> "apierror", scores |-> <<>>]}
    \cup {[kind |-> "scored", scores |-> f] : f \in [1..n -> ScoreVals]}

RECURSIVE VisualFrom(_, _, _)
VisualFrom(candidates, scores, k) ==
    IF k > Len(candidates) THEN <<>>
    ELSE (IF scores[k] >= 50
          THEN <<[candidates[k] EXCEPT !.visualScore = scores[k],
                                       !.signalSources = @ \cup {"visual_match"}]>>
          ELSE <<>>)
         \o VisualFrom(candidates, scores, k + 1)

\* the page is served from localhost, the one host where compareLogos goes
\* past its first line
IS_PROD == FALSE

\* what compareLogos does before its first await
CompareCall(a, candidates, cache, t) ==
    LET withLogos == SelectSeq(candidates, LAMBDA c : c.logoUrl)
        key       == getCacheKey(a.address, withLogos)
        cached    == CacheGet(cache, key)
    IN  IF IS_PROD \/ ~a.logoUrl \/ withLogos = <<>>
        THEN [kind |-> "empty", results |-> <<>>, withLogos |-> <<>>]
        ELSE IF CacheHas(cache, key) /\ t - cached.timestamp < VISION_CACHE_TTL_MS
             THEN [kind |-> "cached", results |-> cached.results, withLogos |-> withLogos]
        ELSE [kind |-> "network", results |-> <<>>, withLogos |-> withLogos]

\* compareLogos past its cache
visualMatches(withLogos, response) ==
    IF response.kind = "scored" THEN VisualFrom(withLogos, response.scores, 1) ELSE <<>>

\* the functional update that merges the visual matches into the list shown
VisionMerge(prev, matches) ==
    LET enriched   == [i \in 1..Len(prev) |->
                         IF prev[i].address \in Addresses(matches)
                         THEN Spread(prev[i], matches[IndexOfAddress(matches, prev[i].address)])
                         ELSE prev[i]]
        visualOnly == SelectSeq(matches, LAMBDA b : b.address \notin Addresses(prev))
    IN  Take(SortBy(LPThenChange, enriched \o visualOnly), 35)

\* ------------------------------------------------------------------ narrative Szn: the AI text pass and the vision pass
\* the keys of NARRATIVE_CATEGORIES
SznCategories == {"cats", "dogs"}

\* a live token as the passes read it
SznToken(addr, logo) == [address |-> addr, logoUrl |-> logo, signalSources |-> {}]
U1 == SznToken("u1", TRUE)
U2 == SznToken("u2", FALSE)

\* what Pass 1 can leave unmatched
UnmatchedLists == {<<>>, <<U1, U2>>}

\* live tokens whose text holds a keyword of a category
K1 == SznToken("k1", TRUE)
K2 == SznToken("k2", FALSE)
K3 == SznToken("k3", FALSE)

\* detectCategory over the model's tokens: k1 and k2 hold a keyword of 'cats',
\* k3 one of 'dogs', the others none
detectCategory(token) ==
    CASE token.address \in {"k1", "k2"} -> "cats"
      [] token.address = "k3"           -> "dogs"
      [] OTHER                          -> "null"

\* the live lists a poll can hand to the engine: the keyword tokens first
KeywordLists == {<<>>, <<K1>>, <<K1, K2>>, <<K1, K3>>}
SznLiveLists == {k \o u : k \in KeywordLists, u \in UnmatchedLists}

\* a card is its key and its tokens here; the score it is sorted by is not held
buildSznCard(key, tokens) == [key |-> key, tokens |-> tokens]

\* Pass 1 without the minimum: a card for every category with a token
Pass1_NoMinimum(live) ==
    LET categoryMap == [c \in SznCategories |->
                           SelectSeq(live, LAMBDA x : detectCategory(x) = c)]
        keys        == SelectSeq(<<"cats", "dogs">>, LAMBDA c : Len(categoryMap[c]) >= 1)
    IN  [keywordCards |-> [i \in 1..Len(keys) |-> buildSznCard(keys[i], categoryMap[keys[i]])],
         unmatched    |-> SelectSeq(live, LAMBDA x : detectCategory(x) = "null")]

\* Pass 1: the tokens of each category, a card for every category with
\* MIN_TOKENS_FOR_SZN tokens or more, and the tokens without a category
Pass1(live) ==
    LET categoryMap == [c \in SznCategories |->
                           SelectSeq(live, LAMBDA x : detectCategory(x) = c)]
        keys        == SelectSeq(<<"cats", "dogs">>,
                                 LAMBDA c : Len(categoryMap[c]) >= MIN_TOKENS_FOR_SZN)
    IN  [keywordCards |-> [i \in 1..Len(keys) |-> buildSznCard(keys[i], categoryMap[keys[i]])],
         unmatched    |-> SelectSeq(live, LAMBDA x : detectCategory(x) = "null")]

\* aiEnrichments: catKey -> extra tokens, a missing key reading as no tokens
NoEnrichments == [c \in SznCategories |-> <<>>]

\* what the backend answers for one token: a known category, neither, or a new narrative
TextAnswers == SznCategories \cup {"null", "gork"}

\* the answer to a batch of n tokens, or an error
CategorizeResponses(n) ==
    {[ok |-> FALSE, answers |-> <<>>]}
    \cup {[ok |-> TRUE, answers |-> f] : f \in [1..n -> TextAnswers]}

categorizeBatch(tokens, answers) ==
    LET idx == SelectSeq([i \in 1..Len(tokens) |-> i], LAMBDA i : answers[i] # "null")
    IN  [k \in 1..Len(idx) |->
            [token        |-> tokens[idx[k]],
             category     |-> IF answers[idx[k]] \in SznCategories THEN answers[idx[k]] ELSE "null",
             newNarrative |-> IF answers[idx[k]] \in SznCategories THEN "null" ELSE answers[idx[k]]]]

\* categorizeWithAI past its cache: every model list fits one batch; a batch
\* that fails is dropped by Promise.allSettled
Categorization(tokens, response) ==
    LET allResults == IF response.ok THEN categorizeBatch(tokens, response.answers) ELSE <<>>
        novelRaw   == SelectSeq(allResults, LAMBDA r : r.newNarrative # "null")
    IN  [categorized |-> SelectSeq(allResults, LAMBDA r : r.category # "null"),
         novelGroups |-> IF novelRaw = <<>> THEN <<>>
                         ELSE <<[key    |-> "gork",
                                 tokens |-> [i \in 1..Len(novelRaw) |-> novelRaw[i].token]]>>]

CategorizeKey(tokens) == [alpha |-> "categorize", addrs |-> Addresses(tokens)]

\* what categorizeWithAI does before its first await
CategorizeCall(tokens, cache, t) ==
    LET key    == CategorizeKey(tokens)
        cached == CacheGet(cache, key)
    IN  IF CacheHas(cache, key) /\ t - cached.timestamp < CATEGORIZE_CACHE_TTL_MS
        THEN [kind |-> "cached", results |-> cached.results]
        ELSE [kind |-> "network", results |-> <<>>]

\* the enrichment map Pass 2's callback builds
EnrichmentsOf(categorized) ==
    [c \in SznCategories |->
        LET of == SelectSeq(categorized, LAMBDA r : r.category = c)
        IN  [i \in 1..Len(of) |-> of[i].token]]

\* the novel cards Pass 2's callback builds (a card is its key and its tokens here)
NovelCards(novelGroups) ==
    SelectSeq(novelGroups, LAMBDA g : Len(g.tokens) >= MIN_TOKENS_FOR_SZN)

ClassifyKey(token) == [alpha |-> "classify", addrs |-> {token.address}]

ClassifyFresh(cache, token, t) ==
    /\ CacheHas(cache, ClassifyKey(token))
    /\ t - CacheGet(cache, ClassifyKey(token)).timestamp < VISION_CACHE_TTL_MS

\* what classifyLogos does before its first await: the cached results and
\* the tokens still to be sent
ClassifyCall(tokens, cache, t) ==
    LET withLogos == SelectSeq(tokens, LAMBDA x : x.logoUrl)
        hit       == SelectSeq(withLogos, LAMBDA x : ClassifyFresh(cache, x, t))
    IN  [cached   |-> [i \in 1..Len(hit) |->
                          [token |-> hit[i],
                           category |-> CacheGet(cache, ClassifyKey(hit[i])).results]],
         uncached |-> SelectSeq(withLogos, LAMBDA x : ~ClassifyFresh(cache, x, t))]

\* what the vision backend answers for n logos: no image can be fetched, the
\* call fails, or a category (or none) for each logo
ClassifyResponses(n) ==
    {[kind |-> "noimage", answers |-> <<>>], [kind |-> "apierror", answers |-> <<>>]}
    \cup {[kind |-> "classified", answers |-> f] : f \in [1..n -> SznCategories \cup {"null"}]}

apiResults(uncached, response) ==
    IF response.kind = "classified"
    THEN [i \in 1..Len(uncached) |-> [token |-> uncached[i], category |-> response.answers[i]]]
    ELSE <<>>

RECURSIVE CacheResults(_, _, _)
\* every result of the API is cached under its token
CacheResults(cache, results, t) ==
    IF results = <<>> THEN cache
    ELSE CacheResults(CacheSet(cache, ClassifyKey(Head(results).token), Head(results).category, t),
                      Tail(results), t)

\* the enrichment map Pass 3 builds: the tokens with a known category, tagged 'vision'
visionEnrichments(results) ==
    [c \in SznCategories |->
        LET of == SelectSeq(results, LAMBDA r : r.category = c)
        IN  [i \in 1..Len(of) |-> [of[i].token EXCEPT !.signalSources = @ \cup {"vision"}]]]

\* Pass 3's functional update of aiEnrichments
MergeEnrichments(prev, extra) == [c \in SznCategories |-> prev[c] \o extra[c]]

\* the addresses a pass has put into each category
AddedBy(enrichments) == [c \in SznCategories |-> Addresses(enrichments[c])]
NothingAdded == [c \in SznCategories |-> {}]

IdlePass2 == [pc |-> "idle", added |-> NothingAdded]
IdlePass3 == [pc |-> "idle", cached |-> <<>>, uncached |-> <<>>, added |-> NothingAdded]

\* the cards the engine returns: the keyword cards, each with the tokens the
\* passes added to its category, then the novel cards (the sort by sznScore
\* orders them and is left out)
sznCardsOf(cards, enrichments, novel) ==
    [i \in 1..Len(cards) |->
        IF enrichments[cards[i].key] = <<>> THEN cards[i]
        ELSE buildSznCard(cards[i].key, cards[i].tokens \o enrichments[cards[i].key])]
    \o novel

\* ------------------------------------------------------------------ the parent resolver's search
\* a string is the sequence of its characters; symbols and words are in upper
\* case, as the source makes them before it compares
STRIP_SUFFIXES ==
    << <<"S", "C", "O", "P", "E">>, <<"C", "O", "I", "N">>, <<"T", "O", "K", "E", "N">>,
       <<"S", "W", "A", "P">>, <<"P", "L", "A", "Y">>, <<"G", "A", "M", "E">>,
       <<"K", "I", "N">>, <<"K", "Y">>, <<"L", "Y">>, <<"I", "S", "H">>, <<"I", "N", "U">>,
       <<"W", "I", "F">>, <<"H", "A", "T">>, <<"C", "A", "T">>, <<"D", "O", "G">>,
       <<"A", "I">>, <<"D", "A", "O">>, <<"M", "O", "O", "N">>, <<"P", "U", "M", "P">>,
       <<"W", "I", "F", "H", "A", "T">> >>

STRIP_PREFIXES ==
    << <<"B", "A", "B", "Y">>, <<"M", "I", "N", "I">>, <<"M", "I", "C", "R", "O">>,
       <<"G", "I", "G", "A">>, <<"M", "E", "G", "A">>, <<"S", "U", "P", "E", "R">>,
       <<"R", "E", "A", "L">>, <<"O", "G">>, <<"T", "U", "R", "B", "O">>,
       <<"C", "H", "A", "D">>, <<"F", "A", "T">>, <<"T", "I", "N", "Y">>,
       <<"M", "E", "A", "N">>, <<"D", "A", "R", "K">>, <<"E", "V", "I", "L">>,
       <<"B", "A", "S", "E", "D">>, <<"L", "I", "T", "T", "L", "E">>, <<"B", "I", "G">>,
       <<"G", "O", "O", "D">>, <<"B", "A", "D">>, <<"M", "A", "D">>, <<"S", "A", "D">>,
       <<"G", "L", "A", "D">>, <<"W", "I", "L", "D">>, <<"H", "O", "L", "Y">>,
       <<"D", "E", "G", "E", "N">>, <<"A", "L", "P", "H", "A">>, <<"P", "U", "R", "E">> >>

NAME_STOP ==
    { <<"T", "H", "E">>, <<"A">>, <<"A", "N">>, <<"O", "F">>, <<"D", "A", "R", "K">>,
      <<"E", "V", "I", "L">>, <<"M", "E", "A", "N">>, <<"B", "A", "B", "Y">>,
      <<"M", "I", "N", "I">>, <<"B", "A", "S", "E", "D">>, <<"S", "U", "P", "E", "R">>,
      <<"R", "E", "A", "L">>, <<"O", "G">>, <<"L", "I", "T", "T", "L", "E">>,
      <<"B", "I", "G">>, <<"B", "A", "D">>, <<"M", "A", "D">>, <<"W", "I", "L", "D">>,
      <<"H", "O", "L", "Y">>, <<"G", "H", "O", "S", "T">>, <<"S", "H", "A", "D", "O", "W">>,
      <<"A", "L", "T", "E", "R">>, <<"T", "U", "R", "B", "O">>, <<"C", "H", "A", "D">>,
      <<"F", "A", "T">>, <<"F", "I", "R", "S", "T">>, <<"N", "E", "W">>,
      <<"T", "H", "I", "S">>, <<"T", "H", "A", "T">>, <<"W", "I", "T", "H">>,
      <<"F", "R", "O", "M">>, <<"H", "A", "V", "E">>, <<"W", "I", "L", "L">>,
      <<"J", "U", "S", "T">>, <<"P", "L", "A", "Y">>, <<"G", "A", "M", "E">>,
      <<"C", "O", "I", "N">>, <<"T", "O", "K", "E", "N">>, <<"E", "V", "E", "R", "Y">> }

startsWith(a, b) == Len(b) <= Len(a) /\ SubSeq(a, 1, Len(b)) = b
endsWith(a, b)   == Len(b) <= Len(a) /\ SubSeq(a, Len(a) - Len(b) + 1, Len(a)) = b

RECURSIVE editDistance(_, _)
\* the Levenshtein distance the table of the source computes
editDistance(a, b) ==
    IF a = <<>> THEN Len(b)
    ELSE IF b = <<>> THEN Len(a)
    ELSE IF a[Len(a)] = b[Len(b)]
         THEN editDistance(SubSeq(a, 1, Len(a) - 1), SubSeq(b, 1, Len(b) - 1))
         ELSE 1 + Min(editDistance(SubSeq(a, 1, Len(a) - 1), b),
                      Min(editDistance(a, SubSeq(b, 1, Len(b) - 1)),
                          editDistance(SubSeq(a, 1, Len(a) - 1), SubSeq(b, 1, Len(b) - 1))))

\* scores are exact fractions of One; every string compared has at most 8
\* characters, and 840 is a multiple of every such length
One == 84000

RECURSIVE SharedPrefixLen(_, _)
SharedPrefixLen(a, b) ==
    IF a = <<>> \/ b = <<>> \/ Head(a) # Head(b) THEN 0
    ELSE 1 + SharedPrefixLen(Tail(a), Tail(b))

similarity(a, b) ==
    LET shorter   == IF Len(a) <= Len(b) THEN a ELSE b
        longer    == IF Len(a) <= Len(b) THEN b ELSE a
        sharedLen == SharedPrefixLen(shorter, longer)
        maxLen    == Max(Len(a), Len(b))
    IN  IF a = b THEN One
        ELSE IF startsWith(a, b) /\ Len(b) >= 3
             THEN (75 * One) \div 100 + (20 * Len(b) * 840) \div Len(a)
        ELSE IF startsWith(b, a) /\ Len(a) >= 3 THEN (80 * One) \div 100
        ELSE IF sharedLen >= 4 /\ 100 * sharedLen >= 75 * Len(shorter)
             THEN (65 * One) \div 100 + (15 * sharedLen * 840) \div Len(shorter)
        ELSE IF maxLen = 0 THEN One
        ELSE One - (editDistance(a, b) * One) \div maxLen

RECURSIVE Dedup(_)
\* the insertion order of a Set built from a list
Dedup(s) ==
    IF s = <<>> THEN <<>>
    ELSE <<Head(s)>> \o Dedup(SelectSeq(Tail(s), LAMBDA x : x # Head(s)))

\* the upper-case symbols here have no camel-case parts but themselves
extractRootCandidates(s) ==
    LET slices   == [k \in 1..Max(0, Min(Len(s) - 1, 8) - 3) |->
                        SubSeq(s, 1, Min(Len(s) - 1, 8) - k + 1)]
        suffixes == SelectSeq(STRIP_SUFFIXES,
                              LAMBDA x : endsWith(s, x) /\ Len(s) > Len(x) + 2)
        prefixes == SelectSeq(STRIP_PREFIXES,
                              LAMBDA x : startsWith(s, x) /\ Len(s) > Len(x) + 2)
        parts    == slices
                    \o [i \in 1..Len(suffixes) |-> SubSeq(s, 1, Len(s) - Len(suffixes[i]))]
                    \o [i \in 1..Len(prefixes) |-> SubSeq(s, Len(prefixes[i]) + 1, Len(s))]
    IN  SelectSeq(Dedup(parts), LAMBDA x : x # s)

\* a text is the sequence of its words, `dollar` telling which are written $WORD
TextWord(w, d) == [word |-> w, dollar |-> d]

\* description.match(/\$([A-Za-z]{2,12})/g)
TickerQueries(text) ==
    LET hits == SelectSeq(text, LAMBDA x : x.dollar /\ Len(x.word) >= 2)
    IN  [i \in 1..Len(hits) |-> Take(hits[i].word, 12)]

\* the words of at least 4 letters that are no stop words
MeaningfulWords(text) ==
    LET kept == SelectSeq(text, LAMBDA x : Len(x.word) >= 4 /\ x.word \notin NAME_STOP)
    IN  [i \in 1..Len(kept) |-> kept[i].word]

\* the query sets of findParent and the list it searches, ten at most
QuerySets(a, description) ==
    LET tickers == TickerQueries(description)
        words   == Take(MeaningfulWords(description), 8)
        names   == MeaningfulWords(a.name)
        symbols == extractRootCandidates(a.symbol)
    IN  [descTickerQueries |-> Range(tickers), descWordQueries |-> Range(words),
         nameQueries |-> Range(names), symbolQueries |-> Range(symbols),
         queryList |-> Take(Dedup(tickers \o words \o names \o symbols), 10)]

\* String.prototype.toUpperCase
UpperChar(c) ==
    CASE c = "a" -> "A"
      [] c = "b" -> "B"
      [] c = "c" -> "C"
      [] c = "d" -> "D"
      [] c = "e" -> "E"
      [] c = "f" -> "F"
      [] c = "g" -> "G"
      [] c = "h" -> "H"
      [] c = "i" -> "I"
      [] c = "j" -> "J"
      [] c = "k" -> "K"
      [] c = "l" -> "L"
      [] c = "m" -> "M"
      [] c = "n" -> "N"
      [] c = "o" -> "O"
      [] c = "p" -> "P"
      [] c = "q" -> "Q"
      [] c = "r" -> "R"
      [] c = "s" -> "S"
      [] c = "t" -> "T"
      [] c = "u" -> "U"
      [] c = "v" -> "V"
      [] c = "w" -> "W"
      [] c = "x" -> "X"
      [] c = "y" -> "Y"
      [] c = "z" -> "Z"
      [] OTHER -> c
toUpperCase(s) == [i \in 1..Len(s) |-> UpperChar(s[i])]

\* in hundredths of One
getBoost(sets, q) ==
    IF q \in sets.descTickerQueries THEN (40 * One) \div 100
    ELSE IF q \in sets.descWordQueries THEN (25 * One) \div 100
    ELSE IF q \in sets.nameQueries THEN (10 * One) \div 100
    ELSE 0

\* Eligible without the test of the candidate's symbol
Eligible_AnySymbol(a, p) ==
    /\ p.chainId = "solana"
    /\ 2 * p.marketCap > a.marketCap
    /\ p.liquidity > 5000
    /\ p.address # a.address

\* the filter on the pairs of a search
Eligible(a, p) ==
    /\ p.chainId = "solana"
    /\ 2 * p.marketCap > a.marketCap
    /\ p.liquidity > 5000
    /\ p.address # a.address
    /\ toUpperCase(p.symbol) # a.symbol

\* the first word of the candidate's name with at least 4 letters, or ''
FirstLongWord(name) ==
    LET long == SelectSeq(name, LAMBDA x : Len(x.word) >= 4)
    IN  IF long = <<>> THEN <<>> ELSE long[1].word

baseSim(a, q, p) ==
    LET cSym == toUpperCase(p.symbol)
    IN  IF q = cSym THEN One
        ELSE Max(similarity(a.symbol, cSym), similarity(a.symbol, FirstLongWord(p.name)))

NoMatch == [found |-> FALSE, pair |-> <<>>, via |-> <<>>, score |-> 0]

RECURSIVE ScanPairs(_, _, _, _, _)
\* the forEach over the pairs of one search: a pair replaces the best match
\* when it qualifies and scores strictly higher
ScanPairs(a, sets, q, pairs, best) ==
    IF pairs = <<>> THEN best
    ELSE LET p     == Head(pairs)
             boost == getBoost(sets, q)
             base  == baseSim(a, q, p)
             minB  == IF boost > 0 THEN (30 * One) \div 100 ELSE (65 * One) \div 100
             next  == IF Eligible(a, p) /\ base >= minB /\ base + boost > best.score
                      THEN [found |-> TRUE, pair |-> p, via |-> q, score |-> base + boost]
                      ELSE best
         IN  ScanPairs(a, sets, q, Tail(pairs), next)

RECURSIVE ScanSearches(_, _, _, _, _)
\* the forEach over the settled searches, in the order of queryList
ScanSearches(a, sets, searches, k, best) ==
    IF k > Len(sets.queryList) THEN best
    ELSE LET q == sets.queryList[k]
         IN  ScanSearches(a, sets, searches, k + 1,
                          IF searches[k].status = "fulfilled"
                          THEN ScanPairs(a, sets, q, searches[k].pairs, best)
                          ELSE best)

\* bestMatch at the end of findParent (via: the query whose search supplied it)
bestMatch(a, description, searches) ==
    ScanSearches(a, QuerySets(a, description), searches, 1, NoMatch)

\* the alpha whose parent is searched, and what the searches can return
DIPPIN == <<"D", "I", "P", "P", "I", "N">>
PIPPIN == <<"P", "I", "P", "P", "I", "N">>
ResolverAlpha ==
    [symbol |-> DIPPIN, name |-> <<TextWord(DIPPIN, FALSE)>>, address |-> "d1",
     marketCap |-> 12000]

\* "alter ego of $PIPPIN" and "alter ego of pippin"
Descriptions ==
    {<<TextWord(<<"A", "L", "T", "E", "R">>, FALSE), TextWord(<<"E", "G", "O">>, FALSE), TextWord(<<"O", "F">>, FALSE), TextWord(PIPPIN, d)>> :
        d \in BOOLEAN}

SearchPair(sym, name, addr) ==
    [symbol |-> sym, name |-> name, address |-> addr, chainId |-> "solana",
     marketCap |-> 800000, liquidity |-> 6000]

\* $PIPPIN itself, $DIPP (a root of the alpha's symbol) and $DIPIP, named
\* "Dippin Pippin"
SearchPairs ==
    {SearchPair(PIPPIN, <<TextWord(PIPPIN, FALSE)>>, "p1"),
     SearchPair(<<"D", "I", "P", "P">>, <<TextWord(<<"D", "I", "P", "P">>, FALSE)>>, "p2"),
     SearchPair(<<"D", "I", "P", "I", "P">>, <<TextWord(DIPPIN, FALSE), TextWord(PIPPIN, FALSE)>>, "p3")}

\* a search fails, or returns up to two pairs in some order
SearchOutcomes ==
    {[status |-> "rejected", pairs |-> <<>>], [status |-> "fulfilled", pairs |-> <<>>]}
    \cup {[status |-> "fulfilled", pairs |-> <<p>>] : p \in SearchPairs}
    \cup {[status |-> "fulfilled", pairs |-> <<pq[1], pq[2]>>] :
             pq \in {x \in SearchPairs \X SearchPairs : x[1] # x[2]}}

SearchesFor(description) ==
    [1..Len(QuerySets(ResolverAlpha, description).queryList) -> SearchOutcomes]

\* the pairs that meet the filter and the thresholds: the alpha's own pair,
\* a second token listed under the alpha's symbol in lower case, $MOON
\* (nothing like the alpha's symbol), $DIPSY (half like it) and $PIPPIN
DIPSY == <<"D", "I", "P", "S", "Y">>
MOON  == <<"M", "O", "O", "N">>
FilterPairs ==
    {SearchPair(DIPPIN, <<TextWord(DIPPIN, FALSE)>>, "d1"),
     SearchPair(<<"d", "i", "p", "p", "i", "n">>, <<TextWord(DIPPIN, FALSE)>>, "p4"),
     SearchPair(MOON, <<TextWord(MOON, FALSE)>>, "p5"),
     SearchPair(DIPSY, <<TextWord(DIPSY, FALSE)>>, "p6"),
     SearchPair(PIPPIN, <<TextWord(PIPPIN, FALSE)>>, "p1")}

\* a search fails, or returns one of these pairs or none
FilterOutcomes ==
    {[status |-> "rejected", pairs |-> <<>>], [status |-> "fulfilled", pairs |-> <<>>]}
    \cup {[status |-> "fulfilled", pairs |-> <<p>>] : p \in FilterPairs}

FilterSearchesFor(description) ==
    [1..Len(QuerySets(ResolverAlpha, description).queryList) -> FilterOutcomes]

\* ------------------------------------------------------------------ the state of the beta panel's hooks
RunIds == 1..MaxRuns

\* a fetchBetas call: where it is and the locals it keeps across its awaits
\* (ok: the detectors that answered, kept for the properties)
IdleRun ==
    [alpha |-> NoAlpha, pc |-> "idle", ok |-> {}, merged |-> <<>>,
     aiCall  |-> [kind |-> "empty", results |-> <<>>],
     visCall |-> [kind |-> "empty", results |-> <<>>, withLogos |-> <<>>]]

RunFree(r) == runs[r].pc \in {"idle", "done"}

\* parent === null
NoParent == formatParent("", 0, 0, 0, 0)

\* what findParent can resolve for an alpha: a pair that passes its filter, or nothing
ParentsFor(a) ==
    {NoParent} \cup
    {p \in ParentTokens : /\ 2 * p.marketCap > a.marketCap
                          /\ p.liquidity > 5000
                          /\ p.address # a.address
                          /\ p.symbol # a.symbol}

AlphaOf(id) == IF id = "A" THEN AlphaA ELSE AlphaB

InitBetas ==
    /\ selectedAlpha = NoAlpha
    /\ betas = <<>>
    /\ betasLoading = FALSE
    /\ betasError = "null"
    /\ runs = [r \in RunIds |-> IdleRun]
    /\ scoreCache = {}
    /\ visionCache = {}
    /\ betasBy = 0
    /\ parent = NoParent
    /\ parentLoading = FALSE
    /\ lookups = [id \in {"A", "B"} |-> 0]
    /\ selections = 0 /\ refreshes = 0

\* ------------------------------------------------------------------ useAlphas
\* the hook has mounted in a browser that holds no history: the mount effect
\* has shown the empty storage and its fetchLive call is in flight
InitAlphas ==
    /\ now = StartTime
    /\ localStorage = NoItem
    /\ liveAlphas = <<>>
    /\ coolingAlphas = <<>>
    /\ positioningAlphas = <<>>
    /\ loading = TRUE
    /\ isRefreshing = FALSE
    /\ error = "null"
    /\ pollsInFlight = 1
    /\ fetchLiveDeps = 0
    /\ lastOp = "init"
    /\ ingested = [a \in Addr |-> 0]
    /\ ticks = 0 /\ polls = 0 /\ mounts = 0 /\ corruptions = 0

InitSzn ==
    /\ sznLive = <<>>
    /\ keywordCards = <<>>
    /\ unmatched = <<>>
    /\ aiEnrichments = NoEnrichments
    /\ aiCards = <<>>
    /\ pass2 = IdlePass2
    /\ pass3 = IdlePass3
    /\ categorizationCache = {}
    /\ sznEffects = 0

\* no library function has been called on its own yet
NoCall == [fn |-> "none", args |-> <<>>, result |-> <<>>]

Init == InitAlphas /\ InitBetas /\ InitSzn /\ libCall = NoCall

\* time passes
Tick(d) ==
    /\ ticks < MaxTicks
    /\ now' = now + d
    /\ ticks' = ticks + 1
    /\ lastOp' = "tick"
    /\ UNCHANGED <<sznVars, libCall>>
    /\ UNCHANGED <<localStorage, feedVars, betaVars, parentVars>>

\* the page is loaded again: the state of every hook and the module-level
\* caches start afresh, the calls in flight are gone and localStorage stays;
\* the mount effect shows what storage holds and calls fetchLive
Reload ==
    /\ mounts < MaxMounts
    /\ LET h == loadHistoricalByPriceAction(localStorage, {}, now)
       IN  /\ liveAlphas' = h.historicalLive
           /\ coolingAlphas' = h.historicalCooling
    /\ positioningAlphas' = loadPositioningPlays(localStorage, now)
    /\ mounts' = mounts + 1
    /\ loading' = TRUE
    /\ isRefreshing' = FALSE
    /\ error' = "null"
    /\ pollsInFlight' = 1
    /\ fetchLiveDeps' = 0
    /\ lastOp' = "mount"
    /\ selectedAlpha' = NoAlpha /\ betas' = <<>> /\ betasLoading' = FALSE /\ betasError' = "null"
    /\ runs' = [r \in RunIds |-> IdleRun]
    /\ scoreCache' = {} /\ visionCache' = {} /\ betasBy' = 0
    /\ parent' = NoParent /\ parentLoading' = FALSE
    /\ lookups' = [id \in {"A", "B"} |-> 0]
    /\ sznLive' = <<>> /\ keywordCards' = <<>>
    /\ unmatched' = <<>> /\ aiEnrichments' = NoEnrichments /\ aiCards' = <<>>
    /\ pass2' = IdlePass2 /\ pass3' = IdlePass3 /\ categorizationCache' = {}
    /\ UNCHANGED <<ingested, now, localStorage, ticks, polls, corruptions, selections,
                   refreshes, sznEffects, libCall>>

\* fetchLive is called by the 60 s interval or by refresh()
FetchLiveStart ==
    /\ pollsInFlight < MaxInFlight
    /\ polls + pollsInFlight < MaxPolls
    /\ IF Len(liveAlphas) = 0
       THEN loading' = TRUE /\ UNCHANGED isRefreshing
       ELSE isRefreshing' = TRUE /\ UNCHANGED loading
    /\ error' = "null"
    /\ pollsInFlight' = pollsInFlight + 1
    /\ lastOp' = "fetchLive"
    /\ UNCHANGED <<sznVars, libCall>>
    /\ UNCHANGED <<ingested, now, localStorage, liveAlphas, coolingAlphas,
                   positioningAlphas, fetchLiveDeps, ticks, polls, mounts, corruptions,
                   betaVars, parentVars>>

\* the four feeds of a fetchLive call have settled: `feed` is their concatenation
FetchLiveSettled(feed) ==
    /\ pollsInFlight > 0
    /\ polls < MaxPolls
    /\ LET freshRaw   == deduplicateAlphas(feed)
           stored     == saveToHistory(localStorage, freshRaw, now)
           fresh      == classifyByPriceAction(freshRaw)
           historical == loadHistoricalByPriceAction(stored, Addresses(freshRaw), now)
           allLive    == fresh.live \o
                         SelectSeq(historical.historicalLive,
                                   LAMBDA a : a.address \notin Addresses(fresh.live))
           allCooling == fresh.cooling \o
                         SelectSeq(historical.historicalCooling,
                                   LAMBDA a : a.address \notin Addresses(fresh.cooling))
           sortedLive == Take(SortBy(ByMomentum, allLive), 40)
       IN  /\ localStorage' = stored
           /\ liveAlphas' = sortedLive
           /\ coolingAlphas' = Take(SortBy(ByChange, allCooling), 30)
           /\ positioningAlphas' = loadPositioningPlays(stored, now)
           /\ error' = IF Len(sortedLive) = 0 THEN "No live runners detected" ELSE error
           /\ ingested' = [a \in Addr |->
                 IF ~HasKey(ParseStored(stored), a) THEN 0
                 ELSE IF ~ParseThrows(localStorage) /\ HasKey(freshRaw, a)
                      THEN Max(IF HasKey(ParseStored(localStorage), a) THEN ingested[a] ELSE 0,
                               Lookup(freshRaw, a).marketCap)
                 ELSE ingested[a]]
    /\ loading' = FALSE
    /\ isRefreshing' = FALSE
    /\ pollsInFlight' = pollsInFlight - 1
    /\ polls' = polls + 1
    /\ lastOp' = "poll"
    /\ UNCHANGED <<sznVars, libCall>>
    /\ UNCHANGED <<now, fetchLiveDeps, ticks, mounts, corruptions, betaVars, parentVars>>

\* liveAlphas.length is not what fetchLive was created with: useCallback
\* returns a new fetchLive, and the effect that depends on it runs again. It
\* shows what storage holds and calls fetchLive, as at mount
MountEffect ==
    /\ Len(liveAlphas) # fetchLiveDeps
    /\ pollsInFlight < MaxInFlight
    /\ polls + pollsInFlight < MaxPolls
    /\ LET h == loadHistoricalByPriceAction(localStorage, {}, now)
       IN  /\ liveAlphas' = h.historicalLive
           /\ coolingAlphas' = h.historicalCooling
    /\ positioningAlphas' = loadPositioningPlays(localStorage, now)
    /\ fetchLiveDeps' = Len(liveAlphas)
    /\ IF Len(liveAlphas) = 0
       THEN loading' = TRUE /\ UNCHANGED isRefreshing
       ELSE isRefreshing' = TRUE /\ UNCHANGED loading
    /\ error' = "null"
    /\ pollsInFlight' = pollsInFlight + 1
    /\ lastOp' = "effect"
    /\ UNCHANGED <<sznVars, libCall>>
    /\ UNCHANGED <<ingested, now, localStorage, ticks, polls, mounts, corruptions,
                   betaVars, parentVars>>

\* the stored text is damaged outside the program
Corrupt ==
    /\ corruptions < MaxCorruptions
    /\ localStorage.kind # "garbage"
    /\ localStorage' = Garbage
    /\ corruptions' = corruptions + 1
    /\ lastOp' = "corrupt"
    /\ UNCHANGED <<sznVars, libCall>>
    /\ UNCHANGED <<now, ticks, feedState, betaVars, parentVars>>

\* ------------------------------------------------------------------ useBetas and useParentAlpha
\* fetchBetas up to its first await, in run slot r
fetchBetasStart(a, r) ==
    /\ betasLoading' = TRUE
    /\ betasError' = "null"
    /\ betas' = <<>>
    /\ betasBy' = r
    /\ runs' = [runs EXCEPT ![r] = [IdleRun EXCEPT !.alpha = a, !.pc = "detectors"]]

\* the end of fetchBetas: the empty-list message and the finally block
fetchBetasEnd(r) ==
    /\ betasError' = IF runs[r].merged = <<>> THEN "No beta plays detected yet" ELSE betasError
    /\ betasLoading' = FALSE

\* the user selects another alpha in the list: BetaPanel renders with it and
\* the effects of useParentAlpha and useBetas run
SelectAlpha(a) ==
    /\ selections < MaxSelections
    /\ a.id # selectedAlpha.id
    /\ \E r \in RunIds :
          /\ RunFree(r) /\ \A q \in RunIds : q < r => ~RunFree(q)
          /\ fetchBetasStart(a, r)
    /\ selectedAlpha' = a
    /\ parentLoading' = TRUE
    /\ parent' = NoParent
    /\ lookups' = [lookups EXCEPT ![a.id] = @ + 1]
    /\ selections' = selections + 1
    /\ lastOp' = "select"
    /\ UNCHANGED <<sznVars, libCall>>
    /\ UNCHANGED <<scoreCache, visionCache, refreshes, now, ticks, localStorage, feedVars>>

\* the panel's refresh button: fetchBetas again for the selected alpha
Refresh ==
    /\ refreshes < MaxRefreshes
    /\ selectedAlpha # NoAlpha
    /\ \E r \in RunIds :
          /\ RunFree(r) /\ \A q \in RunIds : q < r => ~RunFree(q)
          /\ fetchBetasStart(selectedAlpha, r)
    /\ refreshes' = refreshes + 1
    /\ lastOp' = "refresh"
    /\ UNCHANGED <<sznVars, libCall>>
    /\ UNCHANGED <<selectedAlpha, scoreCache, visionCache, selections, parentVars, now, ticks,
                   localStorage, feedVars>>

\* the description fetch and the six detectors of run r have settled, net[d]
\* telling how detector d went: the merged list is set and scoreWithAI called
DetectorsSettled(r, net) ==
    /\ runs[r].pc = "detectors"
    /\ LET a       == runs[r].alpha
           settled == [d \in Detectors |-> Detector(d, a, net[d])]
           answered == {d \in Detectors : net[d] = "ok"}
           merged  == mergeAndScore(AllResultsFrom(settled, 1), a.symbol, a.marketCap)
       IN  IF AllSettledThrows(settled)
           THEN /\ betasError' = "Detection engine error"
                /\ betasLoading' = FALSE
                /\ runs' = [runs EXCEPT ![r] = [IdleRun EXCEPT !.alpha = a, !.pc = "done",
                                                               !.ok = answered]]
                /\ UNCHANGED <<betas, betasBy>>
           ELSE /\ betas' = merged
                /\ betasBy' = r
                /\ runs' = [runs EXCEPT ![r] =
                              [@ EXCEPT !.pc = "ai", !.ok = answered, !.merged = merged,
                                        !.aiCall = ScoreCall(a, merged, scoreCache, now)]]
                /\ UNCHANGED <<betasLoading, betasError>>
    /\ lastOp' = "detectors"
    /\ UNCHANGED <<sznVars, libCall>>
    /\ UNCHANGED <<selectedAlpha, scoreCache, visionCache, selections, refreshes, parentVars, now,
                   ticks, localStorage, feedVars>>

\* scoreWithAI returns to run r (response: what the backend answered, when it
\* was asked): the scores are cached and merged into the run's merged list
AISettled(r) ==
  \E response \in AIResponses(Len(runs[r].merged)) :
    /\ runs[r].pc = "ai"
    /\ runs[r].aiCall.kind # "network" => ~response.ok
    /\ LET a        == runs[r].alpha
           merged   == runs[r].merged
           call     == runs[r].aiCall
           aiScored == IF call.kind = "network" THEN allScored(merged, response)
                       ELSE call.results
       IN  /\ scoreCache' = IF call.kind = "network"
                            THEN CacheSet(scoreCache, getCacheKey(a.address, merged), aiScored, now)
                            ELSE scoreCache
           /\ IF aiScored # <<>>
              THEN betas' = AIMerge(merged, aiScored) /\ betasBy' = r
              ELSE UNCHANGED <<betas, betasBy>>
    /\ runs' = [runs EXCEPT ![r] = [@ EXCEPT !.pc = "read", !.aiCall = IdleRun.aiCall]]
    /\ lastOp' = "ai"
    /\ UNCHANGED <<sznVars, libCall>>
    /\ UNCHANGED <<selectedAlpha, betasLoading, betasError, visionCache, selections, refreshes,
                   parentVars, now, ticks, localStorage, feedVars>>

\* run r reads the list shown and picks the candidates whose text signal is
\* weak: compareLogos is called for them, or the run ends
VisionRead(r) ==
    /\ runs[r].pc = "read"
    /\ LET a    == runs[r].alpha
           weak == weakTextCandidates(betas)
       IN  IF a.logoUrl /\ weak # <<>>
           THEN /\ runs' = [runs EXCEPT ![r] =
                              [@ EXCEPT !.pc = "vision",
                                        !.visCall = CompareCall(a, weak, visionCache, now)]]
                /\ UNCHANGED <<betasLoading, betasError>>
           ELSE /\ fetchBetasEnd(r)
                /\ runs' = [runs EXCEPT ![r] = [@ EXCEPT !.pc = "done"]]
    /\ lastOp' = "read"
    /\ UNCHANGED <<sznVars, libCall>>
    /\ UNCHANGED <<selectedAlpha, betas, betasBy, scoreCache, visionCache, selections, refreshes,
                   parentVars, now, ticks, localStorage, feedVars>>

\* compareLogos returns to run r: the matches are cached and merged into the
\* list shown, and the run ends
VisionSettled(r) ==
  \E response \in VisionResponses(Len(runs[r].visCall.withLogos)) :
    /\ runs[r].pc = "vision"
    /\ runs[r].visCall.kind # "network" => response.kind = "noimage"
    /\ LET a       == runs[r].alpha
           call    == runs[r].visCall
           matches == IF call.kind = "network" THEN visualMatches(call.withLogos, response)
                      ELSE call.results
       IN  /\ visionCache' = IF call.kind = "network" /\ response.kind # "noimage"
                             THEN CacheSet(visionCache, getCacheKey(a.address, call.withLogos),
                                           matches, now)
                             ELSE visionCache
           /\ IF matches # <<>>
              THEN betas' = VisionMerge(betas, matches) /\ betasBy' = r
              ELSE UNCHANGED <<betas, betasBy>>
    /\ fetchBetasEnd(r)
    /\ runs' = [runs EXCEPT ![r] = [@ EXCEPT !.pc = "done", !.visCall = IdleRun.visCall]]
    /\ lastOp' = "vision"
    /\ UNCHANGED <<sznVars, libCall>>
    /\ UNCHANGED <<selectedAlpha, scoreCache, selections, refreshes, parentVars, now, ticks,
                   localStorage, feedVars>>

\* a findParent call for the alpha with this id resolves: the parent is set
\* and written back to the history store
FindParentSettled(id, found) ==
    /\ lookups[id] > 0
    /\ found \in ParentsFor(AlphaOf(id))
    /\ parent' = found
    /\ localStorage' = IF found # NoParent THEN saveParentToHistory(localStorage, found, now)
                       ELSE localStorage
    /\ parentLoading' = FALSE
    /\ lookups' = [lookups EXCEPT ![id] = @ - 1]
    /\ lastOp' = "parent"
    /\ UNCHANGED <<sznVars, libCall>>
    /\ UNCHANGED <<betaVars, now, ticks, feedVars>>

\* ------------------------------------------------------------------ useNarrativeSzn
\* the live set changes once the passes of the previous one have settled: the
\* effect resets the AI results and starts Pass 2 and Pass 3 for the tokens
\* Pass 1 over the live tokens, and the effect over what it left unmatched; a
\* fresh cache entry makes Pass 2 call back at once
SznEffect(live) ==
  LET tokens == Pass1(live).unmatched IN
    /\ sznEffects < MaxSznEffects
    /\ pass2.pc # "pending" /\ pass3.pc # "pending"
    /\ sznLive' = live
    /\ keywordCards' = Pass1(live).keywordCards
    /\ unmatched' = tokens
    /\ IF tokens = <<>>
       THEN /\ aiCards' = <<>> /\ aiEnrichments' = NoEnrichments
            /\ pass2' = IdlePass2 /\ pass3' = IdlePass3
       ELSE LET call       == CategorizeCall(tokens, categorizationCache, now)
                candidates == SelectSeq(tokens, LAMBDA x : shouldRunVision(x, 0))
                classify   == ClassifyCall(candidates, visionCache, now)
            IN  /\ IF call.kind = "cached"
                   THEN /\ aiEnrichments' = EnrichmentsOf(call.results.categorized)
                        /\ aiCards' = NovelCards(call.results.novelGroups)
                        /\ pass2' = [pc |-> "done",
                                     added |-> AddedBy(EnrichmentsOf(call.results.categorized))]
                   ELSE /\ aiEnrichments' = NoEnrichments
                        /\ aiCards' = <<>>
                        /\ pass2' = [IdlePass2 EXCEPT !.pc = "pending"]
                /\ pass3' = IF candidates # <<>>
                            THEN [pc |-> "pending", cached |-> classify.cached,
                                  uncached |-> classify.uncached, added |-> NothingAdded]
                            ELSE IdlePass3
    /\ sznEffects' = sznEffects + 1
    /\ lastOp' = "szn"
    /\ UNCHANGED <<categorizationCache, now, ticks, localStorage, feedVars, betaVars, parentVars,
                   libCall>>

\* categorizeWithAI's batches have settled: the result is cached and the
\* callback sets aiEnrichments and aiCards
Pass2Settled ==
  \E response \in CategorizeResponses(Len(unmatched)) :
    /\ pass2.pc = "pending"
    /\ LET result == Categorization(unmatched, response)
       IN  /\ categorizationCache' = CacheSet(categorizationCache, CategorizeKey(unmatched),
                                              result, now)
           /\ aiEnrichments' = EnrichmentsOf(result.categorized)
           /\ aiCards' = NovelCards(result.novelGroups)
           /\ pass2' = [pc |-> "done", added |-> AddedBy(EnrichmentsOf(result.categorized))]
    /\ lastOp' = "pass2"
    /\ UNCHANGED <<sznLive, keywordCards, unmatched, pass3, sznEffects, now, ticks, localStorage, feedVars, betaVars,
                   parentVars, libCall>>

\* classifyLogos resolves: the API's results are cached and the tokens with a
\* known category are appended to aiEnrichments
Pass3Settled ==
  \E response \in ClassifyResponses(Len(pass3.uncached)) :
    /\ pass3.pc = "pending"
    /\ pass3.uncached = <<>> => response.kind = "noimage"
    /\ LET fromApi == apiResults(pass3.uncached, response)
           results == pass3.cached \o fromApi
           extra   == visionEnrichments(results)
       IN  /\ visionCache' = CacheResults(visionCache, fromApi, now)
           /\ aiEnrichments' = IF extra # NoEnrichments
                                THEN MergeEnrichments(aiEnrichments, extra)
                                ELSE aiEnrichments
           /\ pass3' = [IdlePass3 EXCEPT !.pc = "done", !.added = AddedBy(extra)]
    /\ lastOp' = "pass3"
    /\ UNCHANGED <<sznLive, keywordCards, unmatched, aiCards, pass2, categorizationCache, sznEffects,
                   now, ticks,
                   localStorage, feedVars, parentVars, selectedAlpha, betas, betasLoading,
                   betasError, runs, scoreCache, betasBy, selections, refreshes, libCall>>

\* ------------------------------------------------------------------ library functions, called on their own
\* the searches of a findParent call settle and the best match is picked
FindParentSearch ==
    /\ libCall = NoCall
    /\ \E description \in Descriptions :
          \E searches \in SearchesFor(description) :
             libCall' = [fn |-> "findParent", args |-> <<description, searches>>,
                         result |-> bestMatch(ResolverAlpha, description, searches)]
    /\ UNCHANGED <<now, localStorage, lastOp, ticks, feedVars, betaVars, parentVars, sznVars>>

\* the same, the searches returning pairs the filter and the thresholds are for
FindParentFilter ==
    /\ libCall = NoCall
    /\ \E description \in Descriptions :
          \E searches \in FilterSearchesFor(description) :
             libCall' = [fn |-> "findParent", args |-> <<description, searches>>,
                         result |-> bestMatch(ResolverAlpha, description, searches)]
    /\ UNCHANGED <<now, localStorage, lastOp, ticks, feedVars, betaVars, parentVars, sznVars>>

\* raw detector output for mergeAndScore: a token of the beta list, a second
\* token with the same symbol, the alpha under another address, a quote token
MaxRaw == 3
MergePairs ==
    {PairX1, PairX2, Pair("x4", "WIFHAT", 55, 7000, 50000, 900),
     Pair("x8", AlphaA.symbol, 5, 1000, 5000, 100), Pair("x9", "SOL", 1, 1000, 5000, 100)}
MergeTags == {"keyword", "lore", "lp_pair"}
RawResult == [pair : MergePairs, sources : {{t} : t \in MergeTags}]
RawResults == UNION {[1..n -> RawResult] : n \in 1..MaxRaw}

\* mergeAndScore over the detectors' output, and over the same output twice
MergeCall ==
    /\ libCall = NoCall
    /\ \E rawResults \in RawResults :
          libCall' = [fn |-> "mergeAndScore", args |-> <<rawResults>>,
                      result |-> [once  |-> mergeAndScore(rawResults, AlphaA.symbol,
                                                          AlphaA.marketCap),
                                  twice |-> mergeAndScore(rawResults \o rawResults,
                                                          AlphaA.symbol, AlphaA.marketCap)]]
    /\ UNCHANGED <<now, localStorage, lastOp, ticks, feedVars, betaVars, parentVars, sznVars>>

\* getSignal with the LP-pair line dropped
getSignal_NoLPLine(s) ==
    IF "ai_match" \in s /\ "keyword" \in s THEN [label |-> "CABAL", tier |-> 5]
    ELSE IF "pumpfun" \in s THEN [label |-> "TRENDING", tier |-> 3]
    ELSE IF "keyword" \in s \/ "morphology" \in s THEN [label |-> "STRONG", tier |-> 2]
    ELSE [label |-> "WEAK", tier |-> 0]

\* the signal of a candidate, from its signalSources: the first line that matches
getSignal(s) ==
    IF "lp_pair" \in s THEN [label |-> "CABAL", tier |-> 6]
    ELSE IF "ai_match" \in s /\ "keyword" \in s THEN [label |-> "CABAL", tier |-> 5]
    ELSE IF "ai_match" \in s /\ "morphology" \in s THEN [label |-> "CABAL", tier |-> 5]
    ELSE IF "pumpfun" \in s /\ "keyword" \in s THEN [label |-> "CABAL", tier |-> 4]
    ELSE IF "morphology" \in s /\ "keyword" \in s THEN [label |-> "CABAL", tier |-> 4]
    ELSE IF "description" \in s /\ "keyword" \in s THEN [label |-> "CABAL", tier |-> 4]
    ELSE IF "pumpfun" \in s THEN [label |-> "TRENDING", tier |-> 3]
    ELSE IF "ai_match" \in s THEN [label |-> "AI", tier |-> 3]
    ELSE IF "description" \in s THEN [label |-> "STRONG", tier |-> 2]
    ELSE IF "morphology" \in s THEN [label |-> "STRONG", tier |-> 2]
    ELSE IF "keyword" \in s THEN [label |-> "STRONG", tier |-> 2]
    ELSE IF "lore" \in s THEN [label |-> "LORE", tier |-> 1]
    ELSE [label |-> "WEAK", tier |-> 0]

\* every tag a candidate's signalSources can hold
SignalTags ==
    {"lp_pair", "keyword", "description", "lore", "morphology", "pumpfun", "ai_match",
     "visual_match"}

\* the signals of two rows of the beta list
GetSignalCall ==
    /\ libCall = NoCall
    /\ \E s1 \in SUBSET SignalTags :
          \E s2 \in SUBSET SignalTags :
             libCall' = [fn |-> "getSignal", args |-> <<s1, s2>>,
                         result |-> <<getSignal(s1), getSignal(s2)>>]
    /\ UNCHANGED <<now, localStorage, lastOp, ticks, feedVars, betaVars, parentVars, sznVars>>

\* the morphology engine; a symbol is the sequence of its characters
MorphPrefixes ==
    << <<"B", "A", "B", "Y">>, <<"M", "I", "N", "I">>, <<"M", "I", "K", "O">>,
       <<"M", "I", "C", "R", "O">>, <<"G", "I", "G", "A">>, <<"M", "E", "G", "A">>,
       <<"S", "U", "P", "E", "R">>, <<"B", "A", "S", "E", "D">>, <<"R", "E", "A", "L">>,
       <<"O", "G">>, <<"T", "H", "E">>, <<"R", "E", "T", "R", "O">>,
       <<"T", "U", "R", "B", "O">>, <<"C", "H", "A", "D">>, <<"D", "E", "G", "E", "N">>,
       <<"F", "A", "T">>, <<"T", "I", "N", "Y">> >>

MorphSuffixes ==
    << <<"I", "N", "U">>, <<"W", "I", "F">>, <<"H", "A", "T">>, <<"C", "A", "T">>,
       <<"D", "O", "G">>, <<"A", "I">>, <<"G", "P", "T">>, <<"D", "A", "O">>, <<"F", "I">>,
       <<"X">>, <<"2">>, <<"3">>, <<"P", "L", "U", "S">>, <<"P", "R", "O">>,
       <<"M", "O", "O", "N">>, <<"P", "U", "M", "P">> >>

\* the opposites of a symbol
opposites(s) ==
    CASE s = <<"B", "U", "L", "L">> -> << <<"B", "E", "A", "R">> >>
      [] s = <<"B", "E", "A", "R">> -> << <<"B", "U", "L", "L">> >>
      [] s = <<"M", "O", "O", "N">> -> << <<"D", "O", "O", "M">>, <<"R", "U", "G">> >>
      [] s = <<"L", "O", "N", "G">> -> << <<"S", "H", "O", "R", "T">> >>
      [] s = <<"U", "P">> -> << <<"D", "O", "W", "N">> >>
      [] s = <<"P", "U", "M", "P">> -> << <<"D", "U", "M", "P">> >>
      [] s = <<"R", "I", "C", "H">> -> << <<"P", "O", "O", "R">> >>
      [] s = <<"C", "H", "A", "D">> -> << <<"V", "I", "R", "G", "I", "N">>, <<"B", "E", "T", "A">> >>
      [] s = <<"D", "A", "Y">> -> << <<"N", "I", "G", "H", "T">> >>
      [] s = <<"S", "U", "N">> -> << <<"M", "O", "O", "N">> >>
      [] s = <<"H", "O", "T">> -> << <<"C", "O", "L", "D">> >>
      [] s = <<"F", "A", "S", "T">> -> << <<"S", "L", "O", "W">> >>
      [] s = <<"B", "I", "G">> -> << <<"S", "M", "A", "L", "L">>, <<"T", "I", "N", "Y">> >>
      [] s = <<"G", "O", "O", "D">> -> << <<"E", "V", "I", "L">>, <<"B", "A", "D">> >>
      [] s = <<"L", "I", "G", "H", "T">> -> << <<"D", "A", "R", "K">> >>
      [] s = <<"T", "R", "U", "M", "P">> -> << <<"B", "I", "D", "E", "N">>, <<"K", "A", "M", "A", "L", "A">>, <<"B", "O", "D", "E", "N">> >>
      [] s = <<"B", "I", "D", "E", "N">> -> << <<"T", "R", "U", "M", "P">> >>
      [] s = <<"P", "E", "P", "E">> -> << <<"W", "O", "J", "A", "K">> >>
      [] s = <<"W", "O", "J", "A", "K">> -> << <<"P", "E", "P", "E">> >>
      [] OTHER -> <<>>

\* the companions of a symbol
companions(s) ==
    CASE s = <<"T", "R", "U", "M", "P">> -> << <<"M", "E", "L", "A", "N", "I", "A">>, <<"B", "A", "R", "R", "O", "N">>, <<"I", "V", "A", "N", "K", "A">>, <<"M", "A", "G", "A">>, <<"B", "A", "R", "O", "N">> >>
      [] s = <<"M", "E", "L", "A", "N", "I", "A">> -> << <<"T", "R", "U", "M", "P">>, <<"B", "A", "R", "R", "O", "N">> >>
      [] s = <<"B", "O", "N", "N", "I", "E">> -> << <<"C", "L", "Y", "D", "E">> >>
      [] s = <<"C", "L", "Y", "D", "E">> -> << <<"B", "O", "N", "N", "I", "E">> >>
      [] s = <<"T", "O", "M">> -> << <<"J", "E", "R", "R", "Y">> >>
      [] s = <<"J", "E", "R", "R", "Y">> -> << <<"T", "O", "M">> >>
      [] s = <<"B", "A", "T", "M", "A", "N">> -> << <<"R", "O", "B", "I", "N">>, <<"J", "O", "K", "E", "R">>, <<"G", "O", "T", "H", "A", "M">> >>
      [] s = <<"J", "O", "K", "E", "R">> -> << <<"B", "A", "T", "M", "A", "N">>, <<"H", "A", "R", "L", "E", "Y">> >>
      [] s = <<"W", "I", "F">> -> << <<"H", "A", "T">>, <<"C", "A", "T", "W", "I", "F">>, <<"W", "I", "F", "C", "A", "T">>, <<"B", "A", "B", "Y", "W", "I", "F">> >>
      [] s = <<"H", "A", "T">> -> << <<"W", "I", "F">>, <<"D", "O", "G", "H", "A", "T">> >>
      [] s = <<"B", "O", "N", "K">> -> << <<"B", "A", "B", "Y", "B", "O", "N", "K">>, <<"B", "O", "N", "K", "W", "I", "F">>, <<"M", "E", "G", "A", "B", "O", "N", "K">> >>
      [] s = <<"P", "E", "P", "E">> -> << <<"R", "A", "R", "E">>, <<"F", "E", "E", "L", "S", "G", "O", "O", "D">>, <<"P", "E", "P", "E", "W", "I", "F">>, <<"P", "E", "E", "P", "O">> >>
      [] s = <<"D", "O", "G", "E">> -> << <<"S", "H", "I", "B">>, <<"F", "L", "O", "K", "I">>, <<"B", "A", "B", "Y", "D", "O", "G", "E">> >>
      [] s = <<"S", "H", "I", "B">> -> << <<"D", "O", "G", "E">>, <<"L", "E", "A", "S", "H">>, <<"B", "O", "N", "E">> >>
      [] s = <<"S", "O", "L">> -> << <<"B", "O", "N", "K">>, <<"W", "I", "F">>, <<"P", "O", "P", "C", "A", "T">> >>
      [] s = <<"A", "I">> -> << <<"A", "G", "I">>, <<"G", "P", "T">>, <<"N", "E", "U", "R", "A", "L">>, <<"R", "O", "B", "O", "T">>, <<"A", "G", "E", "N", "T">> >>
      [] s = <<"E", "L", "O", "N">> -> << <<"M", "U", "S", "K">>, <<"T", "E", "S", "L", "A">>, <<"S", "P", "A", "C", "E", "X">>, <<"M", "A", "R", "S">>, <<"X">> >>
      [] s = <<"M", "U", "S", "K">> -> << <<"E", "L", "O", "N">>, <<"T", "E", "S", "L", "A">>, <<"D", "O", "G", "E">> >>
      [] s = <<"P", "O", "P", "C", "A", "T">> -> << <<"P", "O", "P", "D", "O", "G">>, <<"P", "O", "P", "E", "L", "O", "N">>, <<"P", "O", "P", "W", "I", "F">> >>
      [] s = <<"M", "Y", "R", "O">> -> << <<"B", "A", "B", "Y", "M", "Y", "R", "O">>, <<"M", "Y", "R", "O", "C", "A", "T">>, <<"M", "Y", "R", "O", "W", "I", "F">> >>
      [] s = <<"M", "A", "R", "I", "O">> -> << <<"L", "U", "I", "G", "I">>, <<"P", "E", "A", "C", "H">>, <<"W", "A", "R", "I", "O">>, <<"B", "O", "W", "S", "E", "R">>, <<"T", "O", "A", "D">> >>
      [] s = <<"L", "U", "I", "G", "I">> -> << <<"M", "A", "R", "I", "O">>, <<"P", "E", "A", "C", "H">>, <<"W", "A", "R", "I", "O">> >>
      [] s = <<"S", "O", "N", "I", "C">> -> << <<"T", "A", "I", "L", "S">>, <<"K", "N", "U", "C", "K", "L", "E", "S">>, <<"S", "H", "A", "D", "O", "W">>, <<"A", "M", "Y">> >>
      [] s = <<"W", "A", "L", "T", "E", "R">> -> << <<"J", "E", "S", "S", "E">>, <<"H", "E", "I", "S", "E", "N", "B", "E", "R", "G">>, <<"S", "K", "Y", "L", "E", "R">> >>
      [] s = <<"J", "E", "S", "S", "E">> -> << <<"W", "A", "L", "T", "E", "R">>, <<"H", "E", "I", "S", "E", "N", "B", "E", "R", "G">>, <<"P", "I", "N", "K", "M", "A", "N">> >>
      [] OTHER -> <<>>

\* the variants of a symbol, in the insertion order of the Set, without the
\* symbol itself
generateTickerVariants(s) ==
    LET W == <<"W", "I", "F">>
        C == <<"C", "A", "T">>
        D == <<"D", "O", "G">>
        all == [i \in 1..Len(MorphPrefixes) |-> MorphPrefixes[i] \o s]
               \o [i \in 1..Len(MorphSuffixes) |-> s \o MorphSuffixes[i]]
               \o <<s \o W, W \o s, s \o C, C \o s, s \o D, D \o s>>
               \o opposites(s)
               \o companions(s)
               \o << <<"B", "A", "B", "Y">> \o s, <<"G", "I", "G", "A">> \o s,
                     <<"M", "I", "N", "I">> \o s, <<"M", "E", "G", "A">> \o s,
                     <<"F", "A", "T">> \o s, <<"T", "I", "N", "Y">> \o s >>
    IN  SelectSeq(Dedup(all), LAMBDA v : v # s)

\* String.prototype.includes
Includes(hay, needle) ==
    \E i \in 1..(Len(hay) - Len(needle) + 1) : SubSeq(hay, i, i + Len(needle) - 1) = needle

\* the pairs listed on the exchanges, as the search returns them
MorphPair(sym, chain, liq) == [symbol |-> sym, chainId |-> chain, liquidity |-> liq]
MorphMarket ==
    << MorphPair(<<"W", "I", "F", "C", "A", "T">>, "solana", 9000),
       MorphPair(<<"w", "i", "f", "c", "a", "t">>, "solana", 5000),
       MorphPair(<<"B", "A", "B", "Y", "W", "I", "F">>, "solana", 4000),
       MorphPair(<<"W", "I", "F", "H", "A", "T">>, "ethereum", 9000),
       MorphPair(<<"C", "A", "T", "W", "I", "F">>, "solana", 9000),
       MorphPair(<<"M", "E", "L", "A", "N", "I", "A">>, "solana", 9000),
       MorphPair(<<"W", "O", "J", "A", "K">>, "solana", 9000),
       MorphPair(<<"P", "E", "P", "E", "P", "R", "O">>, "solana", 9000) >>
MorphAlphas ==
    { <<"W", "I", "F">>, <<"T", "R", "U", "M", "P">>, <<"P", "E", "P", "E">> }

RECURSIVE SubSeqsOf(_)
\* every sub-list of a list, order kept
SubSeqsOf(s) ==
    IF s = <<>> THEN {<<>>}
    ELSE LET rest == SubSeqsOf(Tail(s))
         IN  rest \cup {<<Head(s)>> \o r : r \in rest}

\* the search endpoint: the listed pairs whose symbol holds the query,
\* whatever the case; nothing when the request fails
SearchPairsFor(q, listed, up) ==
    IF up THEN SelectSeq(listed, LAMBDA p : Includes(toUpperCase(p.symbol), toUpperCase(q)))
    ELSE <<>>

\* the pairs one search of the morphology detector keeps
MorphologyKeeps(p, variant) ==
    /\ p.chainId = "solana"
    /\ p.liquidity >= MIN_LIQUIDITY
    /\ toUpperCase(p.symbol) = toUpperCase(variant)
    /\ p.symbol \notin {<<"S", "O", "L">>, <<"U", "S", "D", "C">>, <<"U", "S", "D", "T">>}

RECURSIVE MorphologyResults(_, _, _)
MorphologyResults(searched, listed, up) ==
    IF searched = <<>> THEN <<>>
    ELSE LET kept == SelectSeq(SearchPairsFor(Head(searched), listed, up),
                               LAMBDA p : MorphologyKeeps(p, Head(searched)))
         IN  [i \in 1..Len(kept) |-> [pair |-> kept[i], sources |-> {"morphology"}]]
             \o MorphologyResults(Tail(searched), listed, up)

\* fetchMorphologyBetas: the first 25 variants are searched, five at a time
fetchMorphologyBetas(alphaSymbol, listed, up) ==
    LET variants == generateTickerVariants(alphaSymbol)
        searched == Take(variants, 25)
    IN  [searched |-> searched, results |-> MorphologyResults(searched, listed, up)]

\* the morphology detector for an alpha, over what the exchanges list
FetchMorphologyCall ==
    /\ libCall = NoCall
    /\ \E alphaSymbol \in MorphAlphas :
          \E listed \in SubSeqsOf(MorphMarket) :
             \E up \in BOOLEAN :
                libCall' = [fn |-> "fetchMorphologyBetas", args |-> <<alphaSymbol, listed, up>>,
                            result |-> fetchMorphologyBetas(alphaSymbol, listed, up)]
    /\ UNCHANGED <<now, localStorage, lastOp, ticks, feedVars, betaVars, parentVars, sznVars>>

\* scoreWithAI called on its own: libCall.result holds the calls made so far,
\* each with the clock and the order of its start and of its completion
MaxScoreCalls == 2
ScoreSteps == {2, 3}
ScoreAlphas == {AlphaA, AlphaB}
ScoreLists ==
    {<<formatBeta(PairX1, {"keyword"}), formatBeta(PairX2, {"lore"})>>,
     <<formatBeta(PairX2, {"lore"}), formatBeta(PairX1, {"keyword"})>>,
     <<formatBeta(PairX1, {"keyword"})>>}

\* the starts and completions so far
ScoreEvents(calls) == Len(calls) + Cardinality({i \in 1..Len(calls) : calls[i].pc = "done"})

\* scoreWithAI up to its first await: a fresh cache entry is returned at
\* once, otherwise the batches are sent to the backend
ScoreWithAIStart ==
    /\ libCall.fn \in {"none", "scoreWithAI"}
    /\ Len(libCall.result) < MaxScoreCalls
    /\ \E a \in ScoreAlphas :
          \E candidates \in ScoreLists :
             LET call  == ScoreCall(a, candidates, scoreCache, now)
                 calls == libCall.result
                 e     == ScoreEvents(calls)
                 sent  == call.kind = "network"
             IN  libCall' = [fn |-> "scoreWithAI", args |-> <<>>,
                             result |-> Append(calls,
                                [alpha       |-> a,
                                 candidates  |-> candidates,
                                 started     |-> now,
                                 startedEv   |-> e + 1,
                                 requested   |-> sent,
                                 pc          |-> IF sent THEN "pending" ELSE "done",
                                 results     |-> call.results,
                                 completed   |-> IF sent THEN Undefined ELSE now,
                                 completedEv |-> IF sent THEN 0 ELSE e + 2])]
    /\ UNCHANGED <<now, localStorage, lastOp, ticks, feedVars, betaVars, parentVars, sznVars>>

\* the batches of a call have settled: the scored candidates are cached
\* under the call's key with the time of the completion, and returned
ScoreWithAISettled ==
    /\ libCall.fn = "scoreWithAI"
    /\ \E i \in 1..MaxScoreCalls :
          /\ i <= Len(libCall.result)
          /\ libCall.result[i].pc = "pending"
          /\ \E response \in AIResponses(Len(libCall.result[i].candidates)) :
                LET c       == libCall.result[i]
                    results == allScored(c.candidates, response)
                IN  /\ scoreCache' = CacheSet(scoreCache,
                                              getCacheKey(c.alpha.address, c.candidates),
                                              results, now)
                    /\ libCall' = [libCall EXCEPT !.result[i] =
                                      [c EXCEPT !.pc = "done", !.results = results,
                                                !.completed = now,
                                                !.completedEv = ScoreEvents(libCall.result) + 1]]
    /\ UNCHANGED <<now, localStorage, lastOp, ticks, feedVars, parentVars, sznVars,
                   selectedAlpha, betas, betasLoading, betasError, runs, visionCache, betasBy,
                   selections, refreshes>>

\* what the feeds hand to deduplicateAlphas: the same token from several
\* feeds with different volumes, and a pair without a token address
MaxDup == 3
DupTokens ==
    {formatAlpha(addr, 1164, v, 800000, 4000, src) :
        addr \in {"", "a1", "a2"}, v \in {0, 4000, 20000}, src \in {"boost", "profile"}}
DupLists == UNION {[1..n -> DupTokens] : n \in 1..MaxDup}

DeduplicateCall ==
    /\ libCall = NoCall
    /\ \E alphas \in DupLists :
          libCall' = [fn |-> "deduplicateAlphas", args |-> <<alphas>>,
                      result |-> deduplicateAlphas(alphas)]
    /\ UNCHANGED <<now, localStorage, lastOp, ticks, feedVars, betaVars, parentVars, sznVars>>

\* the minutes between the two polls of a save-and-reload: the next poll, or
\* one after the first poll's tokens have left the retention window
ReloadSteps == {1, HISTORY_MAX_AGE_MS + 1}

\* two polls save to the store (a parent possibly written between them), and
\* the page is then loaded from it: "written" is the object handed to
\* JSON.stringify by the second saveToHistory, "item" what localStorage holds,
\* "live", "cooling" and "positioning" what the loaders return
SaveAndReloadCall ==
    /\ libCall = NoCall
    /\ \E feed1 \in Feeds, found \in ParentTokens \cup {NoParent}, feed2 \in Feeds,
          d \in ReloadSteps :
          LET first   == saveToHistory(NoItem, deduplicateAlphas(feed1), StartTime)
              prior   == IF found = NoParent THEN first
                         ELSE saveParentToHistory(first, found, StartTime)
              t       == StartTime + d
              written == Prune(IngestAll(ParseStored(prior), deduplicateAlphas(feed2), t), t)
              item    == saveToHistory(prior, deduplicateAlphas(feed2), t)
              loaded  == loadHistoricalByPriceAction(item, {}, t)
              plays   == loadPositioningPlays(item, t)
          IN  libCall' = [fn |-> "saveToHistory", args |-> <<prior, feed2, t>>,
                          result |-> [written     |-> written,
                                      item        |-> item,
                                      live        |-> loaded.historicalLive,
                                      cooling     |-> loaded.historicalCooling,
                                      positioning |-> [i \in 1..Len(plays) |-> plays[i].token]]]
    /\ UNCHANGED <<now, localStorage, lastOp, ticks, feedVars, betaVars, parentVars, sznVars>>

\* the addresses of the tokens a crowded search returns
CrowdAddresses ==
    <<"m01", "m02", "m03", "m04", "m05", "m06", "m07", "m08", "m09", "m10", "m11", "m12",
      "m13", "m14", "m15", "m16", "m17", "m18", "m19", "m20", "m21", "m22", "m23", "m24",
      "m25", "m26", "m27", "m28", "m29", "m30", "m31">>

\* what the detectors found for an alpha with many betas: n tokens, the first
\* two of them paired with the alpha in a pool, each with a 24h change of its own
Crowd(n) ==
    [i \in 1..n |->
        [pair    |-> Pair(CrowdAddresses[i], CrowdAddresses[i], 200 - 3 * i, 9000, 60000, 500 + i),
         sources |-> IF i <= 2 THEN {"keyword", "lp_pair"} ELSE {"keyword"}]]

CrowdSizes == {29, 30, 31}

\* what the detectors found for the alpha selected before
FewPairs == {PairX1, PairX2, PairX3}
FewRaw ==
    UNION {[1..n -> [pair : FewPairs, sources : {{"keyword"}, {"lp_pair"}}]] : n \in 1..2}

\* the functional update of the vision pass, when the list shown has been
\* set by a later run for another alpha in the meantime: "mine" is the list
\* the run read its weak candidates from, "prev" the list shown when
\* compareLogos returns, "shown" the list the update returns
VisionMergeCall ==
    /\ libCall = NoCall
    /\ \E n \in CrowdSizes, raw \in FewRaw :
          LET mine      == mergeAndScore(raw, AlphaA.symbol, AlphaA.marketCap)
              prev      == mergeAndScore(Crowd(n), AlphaB.symbol, AlphaB.marketCap)
              call      == CompareCall(AlphaA, weakTextCandidates(mine), {}, StartTime)
          IN  \E response \in VisionResponses(Len(call.withLogos)) :
                LET matches == visualMatches(call.withLogos, response)
                IN  libCall' = [fn |-> "visionMerge", args |-> <<prev, matches>>,
                                result |-> [mine  |-> mine,
                                            prev  |-> prev,
                                            shown |-> IF matches # <<>>
                                                      THEN VisionMerge(prev, matches)
                                                      ELSE prev]]
    /\ UNCHANGED <<now, localStorage, lastOp, ticks, feedVars, betaVars, parentVars, sznVars>>

\* the candidates classifyTokens is given: up to three tokens, the second and
\* the third with the first one's symbol (in either case) or another, with a
\* market cap, a volume and a creation time that can each be missing
MaxClassified == 3
ClassSymbols == <<{"WIFHAT"}, {"wifhat", "DOGWIF"}, {"WIFHAT", "DOGWIF"}, {"wifhat"}>>
ClassAddresses == <<"c1", "c2", "c3", "c4">>
ClassToken(i) ==
    {formatBeta([Pair(ClassAddresses[i], sym, 10, vol, mcap, created) EXCEPT !.logoUrl = FALSE],
                {"keyword"}) :
        sym \in ClassSymbols[i], vol \in {0, 9000}, mcap \in {0, 48000, 60000},
        created \in {Undefined, 500, 700}}
RECURSIVE ClassListsOf(_)
ClassListsOf(n) ==
    IF n = 0 THEN {<<>>}
    ELSE {Append(l, t) : l \in ClassListsOf(n - 1), t \in ClassToken(n)}

\* classifyTokens over one list of candidates
ClassifyTokensCall ==
    /\ libCall = NoCall
    /\ \E n \in 1..MaxClassified :
          \E bs \in ClassListsOf(n) :
             libCall' = [fn |-> "classifyTokens", args |-> <<bs>>,
                         result |-> classifyTokens(bs)]
    /\ UNCHANGED <<now, localStorage, lastOp, ticks, feedVars, betaVars, parentVars, sznVars>>

\* a search that has not settled yet
Pending == [status |-> "pending", pairs |-> <<>>]

\* Promise.allSettled with the searches completing in the order completed
\* in `order`: each outcome is stored at the index of its promise
AllSettled_ByCompletion(responses, order) == [i \in 1..Len(order) |-> responses[order[i]]]

RECURSIVE SettleInto(_, _, _)
SettleInto(responses, order, results) ==
    IF order = <<>> THEN results
    ELSE SettleInto(responses, Tail(order),
                    [results EXCEPT ![Head(order)] = responses[Head(order)]])

AllSettled(responses, order) ==
    SettleInto(responses, order, [k \in 1..Len(responses) |-> Pending])

\* the orders n searches can complete in
CompletionOrders(n) == {f \in [1..n -> 1..n] : \A i, j \in 1..n : f[i] = f[j] => i = j}

\* a search fails, returns $PIPPIN, or returns $DIPP and $DIPIP in one order
\* or the other
TieOutcomes ==
    {[status |-> "rejected", pairs |-> <<>>]}
    \cup {[status |-> "fulfilled", pairs |-> <<p>>] :
             p \in {q \in SearchPairs : q.address = "p1"}}
    \cup {[status |-> "fulfilled", pairs |-> <<pq[1], pq[2]>>] :
             pq \in {x \in SearchPairs \X SearchPairs :
                        x[1] # x[2] /\ x[1].address # "p1" /\ x[2].address # "p1"}}

\* the searches of a findParent call answer with `responses` (per query of
\* queryList) and complete in `order`; the best match is picked from what
\* Promise.allSettled resolves with
FindParentOrdered ==
    /\ libCall = NoCall
    /\ \E description \in Descriptions :
          LET n == Len(QuerySets(ResolverAlpha, description).queryList)
          IN  \E responses \in [1..n -> TieOutcomes], order \in CompletionOrders(n) :
                 libCall' = [fn |-> "findParentOrdered",
                             args |-> <<description, responses, order>>,
                             result |-> bestMatch(ResolverAlpha, description,
                                                  AllSettled(responses, order))]
    /\ UNCHANGED <<now, localStorage, lastOp, ticks, feedVars, betaVars, parentVars, sznVars>>

\* the records a store can hold around the floors of loadPositioningPlays: a
\* peak below, at and above 50,000 or none (a record written by
\* saveParentToHistory), a market cap of 0 or at and next to 60% of the peak,
\* volume and liquidity below and at their floors, first seen a minute less
\* than 12 hours ago, exactly 12 hours ago, or 10 days ago
PlayPeaks     == {Undefined, 49999, 50000, 100000}
PlayMcaps     == {0, 30000, 30001, 60000}
PlayVolumes   == {4999, 5000}
PlayLiqs      == {2999, 3000}
PlayAges      == {12 * 60 - 1, 12 * 60, 10 * 24 * 60}

PlayRecord(addr, pk, m, v, l, age, t) ==
    [formatAlpha(addr, -50, v, m, l, "boost") EXCEPT
        !.firstSeen = t - age, !.lastSeen = t - 1,
        !.peakMarketCap = pk, !.mcapAtFirstSeen = m]

PlayRecords(t) ==
    UNION {{PlayRecord("a1", pk, m, v, l, age, t) :
                m \in {x \in PlayMcaps : pk = Undefined \/ x <= pk},
                v \in PlayVolumes, l \in PlayLiqs, age \in PlayAges} :
           pk \in PlayPeaks}

\* the stores loadPositioningPlays is called on: nothing under the key, text
\* that does not parse, one record, or that record after a token that passes
\* every test
PlayStores(t) ==
    {NoItem, Garbage}
    \cup {JSONItem(<<r>>) : r \in PlayRecords(t)}
    \cup {JSONItem(<<PlayRecord("a2", 800000, 12000, 20000, 4000, 24 * 60, t), r>>) :
            r \in PlayRecords(t)}

\* loadPositioningPlays() on a store: "plays" is what it returns, "stored"
\* what localStorage holds after the call (the function has no setItem)
LoadPositioningCall ==
    /\ libCall = NoCall
    /\ \E item \in PlayStores(now) :
          libCall' = [fn |-> "loadPositioningPlays", args |-> <<item, now>>,
                      result |-> [plays  |-> loadPositioningPlays(item, now),
                                  stored |-> item]]
    /\ UNCHANGED <<now, localStorage, lastOp, ticks, feedVars, betaVars, parentVars, sznVars>>

NextAlphas ==
    \/ \E d \in TickSteps : Tick(d)
    \/ Reload
    \/ FetchLiveStart
    \/ \E feed \in Feeds : FetchLiveSettled(feed)
    \/ MountEffect
    \/ SelectAlpha(AlphaB)
    \/ \E found \in ParentTokens : FindParentSettled("B", found)
    \/ Corrupt

\* the lifecycle manager with the parent resolver writing to its store
SpecAlphas == Init /\ [][NextAlphas]_vars

\* the lifecycle manager on its own: nothing else writes the store
NextLifecycle ==
    \/ \E d \in TickSteps : Tick(d)
    \/ Reload
    \/ FetchLiveStart
    \/ \E feed \in Feeds : FetchLiveSettled(feed)
    \/ MountEffect

SpecLifecycle == Init /\ [][NextLifecycle]_vars

\* one detection run: an alpha is selected and its run goes to its end
NextRun ==
    \/ (selectedAlpha = NoAlpha /\ \E a \in Selections : SelectAlpha(a))
    \/ \E net \in Nets : DetectorsSettled(1, net)
    \/ AISettled(1)
    \/ VisionRead(1)
    \/ VisionSettled(1)

SpecRun == Init /\ [][NextRun]_vars

\* the same run when every call it awaits settles
SpecRunFair ==
    /\ SpecRun
    /\ WF_vars(\E net \in Nets : DetectorsSettled(1, net))
    /\ WF_vars(AISettled(1))
    /\ WF_vars(VisionRead(1))
    /\ WF_vars(VisionSettled(1))

\* how the detectors go in the specifications below: all answer, all but the
\* lore search answer, the lore search alone answers, or none does
NetAllOk    == [d \in Detectors |-> "ok"]
NetLoreDown == [d \in Detectors |-> IF d = "lore" THEN "error" ELSE "ok"]
NetLoreOnly == [d \in Detectors |-> IF d = "lore" THEN "ok" ELSE "error"]
NetAllDown  == [d \in Detectors |-> "error"]

\* minutes between two looks at the panel
CacheSteps == {4}

\* one alpha is selected and its betas are refreshed while the caches age
NextBetas ==
    \/ \E d \in CacheSteps : Tick(d)
    \/ (selectedAlpha = NoAlpha /\ \E a \in Selections : SelectAlpha(a))
    \/ Refresh
    \/ \E r \in RunIds, net \in {NetAllOk, NetLoreDown, NetLoreOnly} : DetectorsSettled(r, net)
    \/ \E r \in RunIds : AISettled(r)
    \/ \E r \in RunIds : VisionRead(r)
    \/ \E r \in RunIds : VisionSettled(r)

SpecBetas == Init /\ [][NextBetas]_vars

\* the selection changes while runs and parent lookups are in flight
NextSwitch ==
    \/ \E a \in Selections : SelectAlpha(a)
    \/ \E r \in RunIds, net \in {NetAllOk, NetAllDown} : DetectorsSettled(r, net)
    \/ \E r \in RunIds : AISettled(r)
    \/ \E r \in RunIds : VisionRead(r)
    \/ \E r \in RunIds : VisionSettled(r)
    \/ \E id \in {"A", "B"}, found \in ParentTokens \cup {NoParent} : FindParentSettled(id, found)

SpecSwitch == Init /\ [][NextSwitch]_vars

\* the narrative engine over changing live sets, the caches ageing
NextSzn ==
    \/ \E d \in CacheSteps : Tick(d)
    \/ \E live \in SznLiveLists : SznEffect(live)
    \/ Pass2Settled
    \/ Pass3Settled

SpecSzn == Init /\ [][NextSzn]_vars

\* the parent resolver's search, for every way its searches can answer
NextResolver == FindParentSearch

SpecResolver == Init /\ [][NextResolver]_vars

\* the merge of the detectors' output, for every short output
NextMerge == MergeCall

SpecMerge == Init /\ [][NextMerge]_vars

\* the signal tiers of two candidates, for every pair of tag sets
NextSignal == GetSignalCall

SpecSignal == Init /\ [][NextSignal]_vars

\* the morphology detector, for three alphas and every listing
NextMorphology == FetchMorphologyCall

SpecMorphology == Init /\ [][NextMorphology]_vars

\* scoreWithAI, called again for the same or another alpha and candidate list
\* as time passes
NextScore ==
    \/ \E d \in ScoreSteps : Tick(d)
    \/ ScoreWithAIStart
    \/ ScoreWithAISettled

SpecScore == Init /\ [][NextScore]_vars

\* the deduplication of the feeds, for every short list of feed tokens
NextDedup == DeduplicateCall

SpecDedup == Init /\ [][NextDedup]_vars

\* the store written by a poll and read back at the next page load
NextStore == SaveAndReloadCall

SpecStore == Init /\ [][NextStore]_vars

\* the vision pass of a run merging into the list of a later run
NextVisionMerge == VisionMergeCall

SpecVisionMerge == Init /\ [][NextVisionMerge]_vars

\* the OG / RIVAL / SPIN classifier, for every short list of candidates
NextClassify == ClassifyTokensCall

SpecClassify == Init /\ [][NextClassify]_vars

\* the parent resolver's filter and thresholds, for every way its searches
\* can answer with one pair each
NextResolverFilter == FindParentFilter

SpecResolverFilter == Init /\ [][NextResolverFilter]_vars

\* the parent resolver's searches completing in every order
NextResolverOrder == FindParentOrdered

SpecResolverOrder == Init /\ [][NextResolverOrder]_vars

NextPositioning == LoadPositioningCall

SpecPositioning == Init /\ [][NextPositioning]_vars

\* ------------------------------------------------------------------ claims: the history store and the lifecycle
StoredRecords == Range(ParseStored(localStorage))

CoolingEntries(addr) == {c \in Range(coolingAlphas) : c.address = addr}

DumpedByPeak(r) ==
    /\ OrZero(r.peakMarketCap) >= 50000
    /\ r.marketCap > 0
    /\ 4 * r.marketCap < OrZero(r.peakMarketCap)

\* C1: after a poll, every token whose persisted peakMarketCap is at least
\* 50,000 and whose current marketCap is positive and below a quarter of that
\* peak is in Cooling with isDumped set and is not in Live, whether or not the
\* feed of that poll reported it.
C1_DumpedNeverLive ==
    lastOp = "poll" =>
        \A r \in StoredRecords :
            DumpedByPeak(r) =>
                /\ \E c \in CoolingEntries(r.address) : c.isDumped
                /\ r.address \notin Addresses(liveAlphas)

UpdatedInPlace(old, new) ==
    /\ new.firstSeen = old.firstSeen
    /\ new.lastSeen >= old.lastSeen
    /\ OrZero(new.peakMarketCap) >= OrZero(old.peakMarketCap)
    /\ new.mcapAtFirstSeen = old.mcapAtFirstSeen

\* C3: a write to the store for an address that already has a record, by
\* saveToHistory or by saveParentToHistory, keeps firstSeen and
\* mcapAtFirstSeen and does not decrease lastSeen or peakMarketCap.
C3_UpdatedInPlace ==
    [][lastOp' \in {"poll", "parent"} =>
          \A a \in Addr :
              HasKey(ParseStored(localStorage), a) /\ HasKey(ParseStored(localStorage'), a) =>
                  UpdatedInPlace(Lookup(ParseStored(localStorage), a),
                                 Lookup(ParseStored(localStorage'), a))]_vars

\* C9: when the stored text is malformed, the next ingestion stores the
\* tokens of its feed as if the store had been empty, so that the store is
\* valid afterwards.
C9_IngestionRepairsStore ==
    [][(ParseThrows(localStorage) /\ lastOp' = "poll") =>
          /\ ~ParseThrows(localStorage')
          /\ \E feed \in Feeds :
                localStorage' = saveToHistory(NoItem, deduplicateAlphas(feed), now')]_vars

StaleAbsent(r) == now - r.lastSeen > 2 * 60

PassesFloors(r) == r.volume24h >= 5000 /\ r.marketCap >= 10000

HasLastSeenEntry(r) ==
    \E c \in CoolingEntries(r.address) : c.coolingLabel = "Last seen"

StaleRunStep(r) ==
    /\ runs[r].pc \notin {"idle", "done"}
    /\ runs'[r] # runs[r]
    /\ runs[r].alpha.id # selectedAlpha.id

\* a parent lookup started for an alpha that is no longer the selected one resolves
StaleLookupStep(id) ==
    /\ lookups'[id] < lookups[id]
    /\ id # selectedAlpha.id

\* C4: once the selection has moved on, a completion of a detection run or of
\* a parent lookup started for the previous alpha writes nothing to the beta
\* list, the error or the parent shown
C4_StaleCompletionsDiscarded ==
    [][/\ \A r \in RunIds : StaleRunStep(r) => UNCHANGED <<betas, betasError>>
       /\ \A id \in {"A", "B"} : StaleLookupStep(id) => UNCHANGED parent]_vars

\* every candidate that stays in the list keeps its tags
TagsGrow(old, new) ==
    \A b \in Range(old) : \A c \in Range(new) :
        c.address = b.address => b.signalSources \subseteq c.signalSources

\* C5: the AI step and the vision step of a run, working on the list the same
\* run has set, leave every tag of every candidate in place, cached results
\* included
C5_TagsOnlyGrow ==
    [][\A r \in RunIds :
          (runs[r].pc \in {"ai", "vision"} /\ runs'[r] # runs[r] /\ betasBy = r /\ betasBy' = r)
          => TagsGrow(betas, betas')]_vars

RECURSIVE SucceededResults(_, _, _)
\* the results of the detectors that answered, in the order of the call
SucceededResults(a, ok, k) ==
    IF k > Len(DetectorOrder) THEN <<>>
    ELSE (IF DetectorOrder[k] \in ok THEN Detector(DetectorOrder[k], a, "ok").value ELSE <<>>)
         \o SucceededResults(a, ok, k + 1)

MergeOfSucceeded(r) ==
    mergeAndScore(SucceededResults(runs[r].alpha, runs[r].ok, 1),
                  runs[r].alpha.symbol, runs[r].alpha.marketCap)

\* the list without what AI scoring and vision add to its entries
WithoutEnrichment(bs) ==
    [i \in 1..Len(bs) |->
        [f \in DOMAIN bs[i] |->
            IF f \in {"aiScore", "visualScore"} THEN Undefined
            ELSE IF f = "signalSources" THEN bs[i][f] \ {"ai_match", "visual_match"}
            ELSE bs[i][f]]]

PastDetectors(r) == runs[r].pc \in {"ai", "read", "vision", "done"}

RunDegrades(r) ==
    /\ betasError # "Detection engine error"
    /\ WithoutEnrichment(betas) = WithoutEnrichment(MergeOfSucceeded(r))
    /\ runs[r].pc = "done" =>
          /\ ~betasLoading
          /\ runs[r].ok = {} => (betas = <<>> /\ betasError = "No beta plays detected yet")

C8_RenderableBeforeEnrichment ==
    \A r \in RunIds :
        runs[r].pc \in {"ai", "read", "vision"} => (betasBy = r => ~betasLoading)

\* ------------------------------------------------------------------ claims: the narrative engine
\* C6: once Pass 2 and Pass 3 of an effect run have both completed, in either
\* order, every category holds the tokens each of them put into it
C6_PassesKeepEachOthersTokens ==
    (pass2.pc = "done" /\ pass3.pc = "done") =>
        \A c \in SznCategories :
            pass2.added[c] \cup pass3.added[c] \subseteq Addresses(aiEnrichments[c])

\* ------------------------------------------------------------------ claims: the parent resolver
\* the description names $T and the search for T returned an eligible pair
\* whose symbol is T
TickerFound(description, searches) ==
    LET sets == QuerySets(ResolverAlpha, description)
    IN  \E k \in 1..Len(sets.queryList) :
           /\ sets.queryList[k] \in sets.descTickerQueries
           /\ searches[k].status = "fulfilled"
           /\ \E p \in Range(searches[k].pairs) :
                 Eligible(ResolverAlpha, p) /\ p.symbol = sets.queryList[k]

\* the pair was returned by a search that is not a symbol-derived one
ReachedBeyondSymbol(description, searches, pair) ==
    LET sets == QuerySets(ResolverAlpha, description)
    IN  \E k \in 1..Len(sets.queryList) :
           /\ getBoost(sets, sets.queryList[k]) > 0
           /\ searches[k].status = "fulfilled"
           /\ pair \in Range(searches[k].pairs)

\* C11: when the description names $T and the search for T returns an
\* eligible pair whose symbol is T, the resolver returns a pair whose symbol
\* is a $TICKER of the description, and never one reached only through
\* symbol-derived queries
C11_TickerParentWins ==
    (libCall.fn = "findParent" /\ TickerFound(libCall.args[1], libCall.args[2])) =>
        /\ libCall.result.found
        /\ libCall.result.pair.symbol
              \in QuerySets(ResolverAlpha, libCall.args[1]).descTickerQueries
        /\ ReachedBeyondSymbol(libCall.args[1], libCall.args[2], libCall.result.pair)

\* ------------------------------------------------------------------ claims: the merge
\* the tags of every raw result for the address
TagsOfAddress(rawResults, addr) ==
    UNION {rawResults[k].sources : k \in {j \in 1..Len(rawResults) : rawResults[j].pair.address = addr}}

\* C12: merging the detectors' output followed by itself gives the same
\* candidates, in the same order, with the same tag sets as merging it once;
\* the merged list has at most one entry per address, and the entry's tags
\* are the union of the tags of every raw result for that address
C12_MergeIdempotent ==
    libCall.fn = "mergeAndScore" =>
        LET rawResults == libCall.args[1]
            once       == libCall.result.once
        IN  /\ libCall.result.twice = once
            /\ \A i, j \in 1..Len(once) : once[i].address = once[j].address => i = j
            /\ \A i \in 1..Len(once) :
                  once[i].signalSources = TagsOfAddress(rawResults, once[i].address)

\* an address found by two detectors, merged into one entry with both tags,
\* next to another candidate
C12_TwiceFoundMerged ==
    /\ libCall.fn = "mergeAndScore"
    /\ Len(libCall.args[1]) = 3
    /\ Len(libCall.result.once) = 2
    /\ \E i \in 1..2 : Cardinality(libCall.result.once[i].signalSources) = 2

\* ------------------------------------------------------------------ claims: the signal tiers
\* C13: a candidate whose tags hold lp_pair gets a strictly higher tier than
\* every candidate whose tags do not
C13_LPPairOutranks ==
    (libCall.fn = "getSignal" /\ "lp_pair" \in libCall.args[1]
                              /\ "lp_pair" \notin libCall.args[2]) =>
        libCall.result[1].tier > libCall.result[2].tier

\* {lp_pair} against {keyword, morphology}
C13_LPPairAboveKeywordMorphology ==
    /\ libCall.fn = "getSignal"
    /\ libCall.args = <<{"lp_pair"}, {"keyword", "morphology"}>>
    /\ libCall.result[1].tier > libCall.result[2].tier

\* the order of the labels: WEAK < LORE < STRONG < TRENDING < AI < CABAL
LabelRank(label) ==
    CASE label = "WEAK"     -> 0
      [] label = "LORE"     -> 1
      [] label = "STRONG"   -> 2
      [] label = "TRENDING" -> 3
      [] label = "AI"       -> 4
      [] label = "CABAL"    -> 5

\* C14: the tiers follow the strict order of the labels, WEAK < LORE <
\* STRONG < TRENDING < AI < CABAL: of two candidates with different labels
\* the one with the higher label has the strictly higher tier, and two
\* different labels never share a tier
C14_TiersFollowLabels ==
    (libCall.fn = "getSignal" /\ libCall.result[1].label # libCall.result[2].label) =>
        /\ libCall.result[1].tier # libCall.result[2].tier
        /\ (LabelRank(libCall.result[1].label) < LabelRank(libCall.result[2].label))
              <=> (libCall.result[1].tier < libCall.result[2].tier)

\* ------------------------------------------------------------------ claims: the Szn cards
\* the cards on screen
sznCards == sznCardsOf(keywordCards, aiEnrichments, aiCards)

\* the tokens a known category was matched by: by keyword, or by a pass
MatchedBy(c) ==
    Addresses(SelectSeq(sznLive, LAMBDA x : detectCategory(x) = c))
        \cup Addresses(aiEnrichments[c])

\* the novel narratives of the text pass's answer for the unmatched tokens
NovelGroupsNow ==
    IF pass2.pc = "done" /\ CacheHas(categorizationCache, CategorizeKey(unmatched))
    THEN Range(CacheGet(categorizationCache, CategorizeKey(unmatched)).results.novelGroups)
    ELSE {}

CardKeys == {sznCards[i].key : i \in 1..Len(sznCards)}

MorphologyExpected(alphaSymbol, listed, up) ==
    {p \in Range(listed) :
        \E v \in Range(generateTickerVariants(alphaSymbol)) :
            /\ p \in Range(SearchPairsFor(v, listed, up))
            /\ p.chainId = "solana"
            /\ p.liquidity >= MIN_LIQUIDITY
            /\ toUpperCase(p.symbol) = toUpperCase(v)}

\* C16: the morphology detector searches every variant of the alpha's symbol
\* (prefix, suffix, compound, opposite, companion) and proposes, with the tag
\* 'morphology', every returned pair on the target chain with the liquidity
\* of the floor or more whose symbol is the searched variant, in any case
C16_EveryVariantSearched ==
    libCall.fn = "fetchMorphologyBetas" =>
        /\ Range(generateTickerVariants(libCall.args[1])) \subseteq Range(libCall.result.searched)
        /\ {r.pair : r \in Range(libCall.result.results)}
              = MorphologyExpected(libCall.args[1], libCall.args[2], libCall.args[3])
        /\ \A r \in Range(libCall.result.results) : r.sources = {"morphology"}

\* ------------------------------------------------------------------ claims: the score cache
ScoreCalls == IF libCall.fn = "scoreWithAI" THEN libCall.result ELSE <<>>

SameScoreKey(c, d) ==
    /\ c.alpha.address = d.alpha.address
    /\ Addresses(c.candidates) = Addresses(d.candidates)

\* call i asked the backend and completed before call j started
StoredBefore(i, j) ==
    /\ ScoreCalls[i].pc = "done" /\ ScoreCalls[i].requested
    /\ ScoreCalls[i].completedEv < ScoreCalls[j].startedEv
    /\ SameScoreKey(ScoreCalls[i], ScoreCalls[j])

\* call i is the last call for the key of call j to have stored its results
\* before call j started
LastStoredBefore(i, j) ==
    /\ StoredBefore(i, j)
    /\ \A k \in 1..Len(ScoreCalls) :
          StoredBefore(k, j) => ScoreCalls[k].completedEv <= ScoreCalls[i].completedEv

\* C17: after a scoreWithAI call has completed, a later call with the same
\* alpha address and the same set of candidate addresses, in any order, made
\* less than 5 minutes after it returns the stored results and sends nothing
\* to the backend; made 5 minutes after it or later, it asks the backend again
C17_ScoreCacheFiveMinutes ==
    \A i, j \in 1..Len(ScoreCalls) :
        LastStoredBefore(i, j) =>
            IF ScoreCalls[j].started - ScoreCalls[i].completed < CACHE_TTL_MS
            THEN /\ ~ScoreCalls[j].requested
                 /\ ScoreCalls[j].results = ScoreCalls[i].results
            ELSE ScoreCalls[j].requested

\* the candidates of a completed call, in the other order, four minutes later
C17_ReorderedHit ==
    /\ Len(ScoreCalls) = 2
    /\ LastStoredBefore(1, 2)
    /\ ScoreCalls[1].candidates # ScoreCalls[2].candidates
    /\ ScoreCalls[1].results # <<>>
    /\ ScoreCalls[2].started - ScoreCalls[1].completed = 4
    /\ ~ScoreCalls[2].requested

\* the same call again five minutes after the completion
C17_ExpiredAsksAgain ==
    /\ Len(ScoreCalls) = 2
    /\ LastStoredBefore(1, 2)
    /\ ScoreCalls[2].started - ScoreCalls[1].completed = 5
    /\ ScoreCalls[2].requested

\* ------------------------------------------------------------------ claims: the clamp of the 24h change
InClampRange(x) == x.priceChange24h >= -100 /\ x.priceChange24h <= 5000

\* C18: every token in Live and in Cooling, and every record of the history
\* store, has its priceChange24h within [-100, 5000]
C18_ChangeClamped ==
    /\ \A x \in Range(liveAlphas) \cup Range(coolingAlphas) : InClampRange(x)
    /\ \A rec \in StoredRecords : InClampRange(rec)

\* ------------------------------------------------------------------ claims: the deduplication of the feeds
\* the records of the list with the address
WithAddress(alphas, addr) == {x \in Range(alphas) : x.address = addr}

\* C19: the deduplicated list holds exactly one record for every non-empty
\* address of the input, and that record has the largest volume24h of the
\* input's records with the address, in whatever order the feeds delivered them
C19_OnePerAddressMaxVolume ==
    libCall.fn = "deduplicateAlphas" =>
        LET alphas == libCall.args[1]
            out    == libCall.result
        IN  /\ Addresses(out) = Addresses(alphas) \ {""}
            /\ \A i, j \in 1..Len(out) : out[i].address = out[j].address => i = j
            /\ \A i \in 1..Len(out) :
                  /\ out[i] \in WithAddress(alphas, out[i].address)
                  /\ \A y \in WithAddress(alphas, out[i].address) :
                        y.volume24h <= out[i].volume24h

\* a token delivered twice, the second time with the higher volume, next to
\* a pair without an address
C19_LaterHigherVolumeKept ==
    /\ libCall.fn = "deduplicateAlphas"
    /\ Len(libCall.args[1]) = 3
    /\ libCall.args[1][1].address = "a1" /\ libCall.args[1][2].address = ""
    /\ libCall.args[1][3].address = "a1"
    /\ libCall.args[1][1].volume24h < libCall.args[1][3].volume24h
    /\ libCall.result = <<libCall.args[1][3]>>

\* ------------------------------------------------------------------ claims: the retention window
\* the token's record in the store was last seen more than 30 days ago
PastRetention(addr) ==
    \E rec \in StoredRecords :
        rec.address = addr /\ now - rec.lastSeen > HISTORY_MAX_AGE_MS

PositioningAddresses == {positioningAlphas[i].token.address : i \in 1..Len(positioningAlphas)}

\* C20: whenever the lists are set, at a page load from the store or by a
\* poll, no token whose record was last seen more than 30 days ago is in
\* Live, Cooling or Positioning
C20_NothingPastRetention ==
    lastOp \in {"mount", "poll"} =>
        \A addr \in Addresses(liveAlphas) \cup Addresses(coolingAlphas) \cup PositioningAddresses :
            ~PastRetention(addr)

\* ------------------------------------------------------------------ claims: the store's round trip
\* the record of the address in a list has the given firstSeen and peak
CarriesAs(list, w) ==
    \A i \in 1..Len(list) :
        list[i].address = w.address =>
            /\ list[i].firstSeen = w.firstSeen
            /\ list[i].peakMarketCap = w.peakMarketCap

C22_PollsStartOnMountTimerOrRefresh ==
    [][/\ pollsInFlight' > pollsInFlight => lastOp' \in {"mount", "fetchLive"}
       /\ (lastOp = "poll" /\ liveAlphas' # liveAlphas) => lastOp' \in {"poll", "mount"}]_vars

\* ------------------------------------------------------------------ claims: what a poll puts in Live
\* the tokens of liveAlphas that the poll took from its feeds
FreshInLive == {a \in Range(liveAlphas) : ~a.isHistorical}

IsRunner(a) == a.priceChange24h > LIVE_MIN_CHANGE /\ a.volume24h >= LIVE_MIN_VOLUME

\* C23 as stated: after a poll, every token of Live that came from the feeds
\* has a 24h change above 0 and a volume24h of at least 10,000
C23_FreshLiveIsRunner ==
    lastOp = "poll" => \A a \in FreshInLive : IsRunner(a)

\* C23: after a poll, every token of Live that came from the feeds has a 24h
\* change above 0 and a volume24h of at least 10,000, or is a token still
\* on its bonding curve with a volume24h of at least 5,000 and a market cap
\* of at least 10,000
C23_FreshLiveIsRunnerOrPreGraduation ==
    lastOp = "poll" =>
        \A a \in FreshInLive :
            \/ IsRunner(a)
            \/ /\ a.source = "pumpfun_pre"
               /\ a.volume24h >= COOLING_MIN_VOLUME
               /\ a.marketCap >= COOLING_MIN_MCAP

\* a poll has put in Live a token that is still on its bonding curve, with
\* no 24h change and a volume24h below the floor of Live
C23_PreGraduationInLive ==
    /\ lastOp = "poll"
    /\ \E a \in FreshInLive :
          /\ a.source = "pumpfun_pre" /\ a.priceChange24h = 0
          /\ a.volume24h < LIVE_MIN_VOLUME /\ a.volume24h >= COOLING_MIN_VOLUME

\* ------------------------------------------------------------------ claims: the order of the beta list
\* LP pairs first, the 24h change non-increasing inside each group, and no
\* more than 30 entries
OrderedBetaList(list) ==
    /\ \A i, j \in 1..Len(list) :
          i < j => /\ IsLP(list[i]) >= IsLP(list[j])
                   /\ IsLP(list[i]) = IsLP(list[j]) =>
                          list[i].priceChange24h >= list[j].priceChange24h
    /\ Len(list) <= 30

\* C24: the beta list, after the heuristic merge and after every enrichment
\* merged into it by whichever run, has its lp_pair candidates first, each
\* group in non-increasing 24h change order, and at most 30 entries
C24_BetaListOrderedAndCapped ==
    /\ OrderedBetaList(betas)
    /\ libCall.fn = "visionMerge" =>
          /\ OrderedBetaList(libCall.result.mine)
          /\ OrderedBetaList(libCall.result.prev)
          /\ OrderedBetaList(libCall.result.shown)

\* ------------------------------------------------------------------ claims: OG, RIVAL and SPIN
\* the classified candidates that share b's symbol in upper case
GroupOf(out, b) == {c \in Range(out) : upperSymbol(c.symbol) = upperSymbol(b.symbol)}

\* c was created before b, both creation times being known
CreatedBefore(c, b) ==
    /\ OrZero(c.pairCreatedAt) # 0 /\ OrZero(b.pairCreatedAt) # 0
    /\ c.pairCreatedAt < b.pairCreatedAt

\* one member of the group is the OG and none was created before it
OneOldestOG(group) ==
    /\ Cardinality({c \in group : c.tokenClass = "OG"}) = 1
    /\ \A og \in group : og.tokenClass = "OG" =>
          /\ \A c \in group : ~CreatedBefore(c, og)
          /\ OrZero(og.pairCreatedAt) = 0 => \A c \in group : OrZero(c.pairCreatedAt) = 0

\* C25 as stated: a candidate alone in its group has no class; in a larger
\* group one member is the OG and none is older, and every other member is
\* RIVAL if and only if its market cap is at least 80% of the OG's or its
\* volume exceeds the OG's, and SPIN otherwise
C25_RivalByMcapOrVolume ==
    libCall.fn = "classifyTokens" =>
        \A b \in Range(libCall.result) :
            LET group == GroupOf(libCall.result, b)
            IN  IF Cardinality(group) = 1 THEN b.tokenClass = "null"
                ELSE /\ OneOldestOG(group)
                     /\ \A og \in group : og.tokenClass = "OG" /\ b.tokenClass # "OG" =>
                           /\ b.tokenClass \in {"RIVAL", "SPIN"}
                           /\ b.tokenClass = "RIVAL" <=>
                                 \/ 10 * b.marketCap >= 8 * og.marketCap
                                 \/ b.volume24h > og.volume24h

\* C25: the same, the OG's market cap and volume counting as 1 when they are
\* 0 or missing
C25_RivalByMcapOrVolumeOfKnownOG ==
    libCall.fn = "classifyTokens" =>
        \A b \in Range(libCall.result) :
            LET group == GroupOf(libCall.result, b)
            IN  IF Cardinality(group) = 1 THEN b.tokenClass = "null"
                ELSE /\ OneOldestOG(group)
                     /\ \A og \in group : og.tokenClass = "OG" /\ b.tokenClass # "OG" =>
                           /\ b.tokenClass \in {"RIVAL", "SPIN"}
                           /\ b.tokenClass = "RIVAL" <=>
                                 \/ 10 * b.marketCap >= 8 * Max(og.marketCap, 1)
                                 \/ b.volume24h > Max(og.volume24h, 1)

\* three candidates with one symbol, one of them listed in lower case and
\* the oldest listed last: an OG, a RIVAL and a SPIN
C25_OGRivalSpin ==
    /\ libCall.fn = "classifyTokens"
    /\ Len(libCall.args[1]) = 3
    /\ libCall.args[1][2].symbol = "wifhat"
    /\ \E og, r, sp \in Range(libCall.result) :
          /\ og.tokenClass = "OG" /\ og.address = "c3" /\ og.marketCap > 0
          /\ r.tokenClass = "RIVAL" /\ sp.tokenClass = "SPIN"

\* ------------------------------------------------------------------ claims: the resolver's thresholds
\* C26: the pair the resolver returns was accepted with a base similarity of
\* at least 0.65 when the query that supplied it has no boost (a query made
\* from the symbol only) and of at least 0.30 when it has one (a $TICKER, a
\* description word or a name word); it is neither the alpha's own token nor
\* a token with the alpha's symbol
C26_ThresholdsAndNotItself ==
    (libCall.fn = "findParent" /\ libCall.result.found) =>
        LET sets  == QuerySets(ResolverAlpha, libCall.args[1])
            boost == getBoost(sets, libCall.result.via)
            base  == baseSim(ResolverAlpha, libCall.result.via, libCall.result.pair)
        IN  /\ boost = 0 => 100 * base >= 65 * One
            /\ boost > 0 => 100 * base >= 30 * One
            /\ libCall.result.pair.address # ResolverAlpha.address
            /\ toUpperCase(libCall.result.pair.symbol) # toUpperCase(ResolverAlpha.symbol)

\* the searches returned the alpha's own pair, its namesake and $DIPSY, and
\* $DIPSY is returned: half like the alpha's symbol, found through a boosted
\* query
C26_WeakMatchThroughBoostedQuery ==
    /\ libCall.fn = "findParent" /\ libCall.result.found
    /\ libCall.result.pair.symbol = DIPSY
    /\ getBoost(QuerySets(ResolverAlpha, libCall.args[1]), libCall.result.via) > 0
    /\ 100 * baseSim(ResolverAlpha, libCall.result.via, libCall.result.pair) < 65 * One
    /\ \E k \in DOMAIN libCall.args[2] :
          \E p \in Range(libCall.args[2][k].pairs) : p.address = ResolverAlpha.address
    /\ \E k \in DOMAIN libCall.args[2] :
          \E p \in Range(libCall.args[2][k].pairs) : p.address = "p4"

\* ------------------------------------------------------------------ claims: the order of completion
\* the places <<query, position>> of the pairs that pass the filter and the
\* threshold of their query, and what they score
Accepted(description, responses) ==
    LET sets == QuerySets(ResolverAlpha, description)
    IN  {kj \in (1..Len(responses)) \X (1..2) :
            /\ responses[kj[1]].status = "fulfilled"
            /\ kj[2] <= Len(responses[kj[1]].pairs)
            /\ Eligible(ResolverAlpha, responses[kj[1]].pairs[kj[2]])
            /\ LET q     == sets.queryList[kj[1]]
                   base  == baseSim(ResolverAlpha, q, responses[kj[1]].pairs[kj[2]])
               IN  100 * base >= (IF getBoost(sets, q) > 0 THEN 30 ELSE 65) * One}

ScoreAt(description, responses, kj) ==
    LET sets == QuerySets(ResolverAlpha, description)
        q    == sets.queryList[kj[1]]
    IN  baseSim(ResolverAlpha, q, responses[kj[1]].pairs[kj[2]]) + getBoost(sets, q)

Earlier(a, b) == a[1] < b[1] \/ (a[1] = b[1] /\ a[2] < b[2])

\* C27: whatever order the searches complete in, the pair returned is the
\* one with the top score that comes first in the order of the query list
\* and, within one response, of the response; nothing is returned when no
\* pair is accepted
C27_FirstOfTopScore ==
    libCall.fn = "findParentOrdered" =>
        LET description == libCall.args[1]
            responses   == libCall.args[2]
            accepted    == Accepted(description, responses)
        IN  IF accepted = {} THEN ~libCall.result.found
            ELSE /\ libCall.result.found
                 /\ \E kj \in accepted :
                       /\ \A other \in accepted :
                             \/ ScoreAt(description, responses, other)
                                   < ScoreAt(description, responses, kj)
                             \/ /\ ScoreAt(description, responses, other)
                                      = ScoreAt(description, responses, kj)
                                /\ (other = kj \/ Earlier(kj, other))
                       /\ libCall.result.pair = responses[kj[1]].pairs[kj[2]]
                       /\ libCall.result.via
                             = QuerySets(ResolverAlpha, description).queryList[kj[1]]

\* the searches complete last to first; two different pairs score the same
\* top score in the responses of two queries, and the one of the earlier
\* query is returned
C27_TieAcrossQueriesCompletedInReverse ==
    /\ libCall.fn = "findParentOrdered" /\ libCall.result.found
    /\ \A i \in DOMAIN libCall.args[3] :
          libCall.args[3][i] = Len(libCall.args[3]) + 1 - i
    /\ \E a, b \in Accepted(libCall.args[1], libCall.args[2]) :
          /\ a[1] < b[1]
          /\ ScoreAt(libCall.args[1], libCall.args[2], a)
                = ScoreAt(libCall.args[1], libCall.args[2], b)
          /\ ScoreAt(libCall.args[1], libCall.args[2], a) = libCall.result.score
          /\ libCall.args[2][a[1]].pairs[a[2]] # libCall.args[2][b[1]].pairs[b[2]]
          /\ libCall.result.pair = libCall.args[2][a[1]].pairs[a[2]]

\* ------------------------------------------------------------------ claims: one place per token
\* the places <<card, position>> of the merged result that hold the token
PlacesOf(addr) ==
    {ij \in (1..Len(sznCards)) \X (1..(2 * Len(sznLive) + 1)) :
        /\ ij[2] <= Len(sznCards[ij[1]].tokens)
        /\ sznCards[ij[1]].tokens[ij[2]].address = addr}

\* C28: in the merged result every live token is in at most one card and
\* at most once in it, whichever of the keyword, text and vision passes put
\* it there
C28_OnePlacePerToken ==
    \A addr \in Addresses(sznLive) : Cardinality(PlacesOf(addr)) <= 1

\* ------------------------------------------------------------------ claims: Live and Cooling after a poll
\* no address is twice in the list
OncePerAddress(list) ==
    \A i, j \in 1..Len(list) : list[i].address = list[j].address => i = j

\* C29: after every completed poll no address is in both Live and Cooling,
\* and no address is twice in Live or twice in Cooling
C29_LiveAndCoolingDisjoint ==
    lastOp = "poll" =>
        /\ Addresses(liveAlphas) \cap Addresses(coolingAlphas) = {}
        /\ OncePerAddress(liveAlphas)
        /\ OncePerAddress(coolingAlphas)

\* a poll has put a token of its feeds in Live and a token from the store in
\* Cooling, and the token in Live has a record in the store that would be
\* classified as dumped
C29_FreshLiveBesideStoredCooling ==
    /\ lastOp = "poll"
    /\ \E a \in Range(liveAlphas) : ~a.isHistorical
    /\ \E c \in Range(coolingAlphas) : c.isHistorical
    /\ \E rec \in StoredRecords :
          /\ rec.address \in Addresses(liveAlphas)
          /\ HistoricalDumped(rec)

\* ------------------------------------------------------------------ claims: the Positioning set
\* the token passes the five floors of the Positioning set at time t
IsPositioningPlay(a, t) ==
    /\ a.peakMarketCap # Undefined /\ a.peakMarketCap >= 50000
    /\ 100 * (a.peakMarketCap - a.marketCap) >= 40 * a.peakMarketCap
    /\ a.volume24h >= 5000
    /\ a.liquidity >= 3000
    /\ a.firstSeen # Undefined /\ t - a.firstSeen >= 12 * 60

\* C30: every token in the Positioning set has peakMarketCap >= 50,000, a
\* drawdown from its peak of at least 40%, volume24h >= 5,000, liquidity >=
\* 3,000 and was first seen at least 12 hours ago, and computing the set
\* leaves the history store as it was
C30_PositioningFloors ==
    /\ \A i \in 1..Len(positioningAlphas) :
          IsPositioningPlay(positioningAlphas[i].token, now)
    /\ libCall.fn = "loadPositioningPlays" =>
          /\ \A i \in 1..Len(libCall.result.plays) :
                IsPositioningPlay(libCall.result.plays[i].token, libCall.args[2])
          /\ libCall.result.stored = libCall.args[1]

\* the Positioning set holds a token that is exactly at every floor: peak
\* 50,000, market cap 30,000, volume 5,000, liquidity 3,000, first seen 12
\* hours ago
C30_PlayAtEveryFloor ==
    /\ libCall.fn = "loadPositioningPlays"
    /\ \E i \in 1..Len(libCall.result.plays) :
          LET a == libCall.result.plays[i].token
          IN  /\ a.peakMarketCap = 50000 /\ a.marketCap = 30000
              /\ a.volume24h = 5000 /\ a.liquidity = 3000
              /\ libCall.args[2] - a.firstSeen = 12 * 60

====
